---------------------------- MODULE Spec2Model ----------------------------
(***************************************************************************)
(* A model of the desugaring and rewriting core of the type checker:       *)
(*   src/ast/desugar/Desugar.cc   parse tree -> TAST                       *)
(*   src/rewriter/TEnum.cc        the T::Enum rewriter pass                *)
(*   src/rewriter/Minitest.cc     the describe/it/before/after pass        *)
(*                                                                         *)
(* Trees are records carrying a tag; the desugarer is a family of          *)
(* recursive operators that thread the mutable state of a run (the         *)
(* per-scope counters, the fresh-name requests, the diagnostics, the       *)
(* pending exception and the process-wide locReported flag) through the    *)
(* recursion in the order in which the C++ code evaluates it.              *)
(***************************************************************************)
EXTENDS Integers, Sequences, FiniteSets, TLC

VARIABLES
    pc,           \* driver position: "idle" | "desugared" | "rewritten"
    unit,         \* the compilation unit handed to node2Tree: [node, isRBI]
    tree,         \* the tree node2Tree returned (NoTree when it threw)
    threw,        \* TRUE when node2Tree left by exception
    run,          \* the state the run left: counters, requests, diagnostics
    locReported,  \* Desugar.cc's process-wide flag
    entryFlag,    \* the value of locReported when node2Tree was entered
    unitsDone,    \* units the sequential driver has put through node2Tree
    unitsFailed,  \* how many of the earlier units threw
    rw,           \* rewriter driver: the pass, its input and its output
    thr,          \* concurrent driver: per-thread record
    debug_mode    \* sorbet::debug_mode: TRUE in a build that checks its ENFORCEs

vars == <<pc, unit, tree, threw, run, locReported, entryFlag, unitsDone, unitsFailed,
          rw, thr, debug_mode>>

\* Bind(v, K) is K applied to v: the value a C++ local is initialised with,
\* followed by the code that runs with that local in scope
Bind(v, K(_)) == K(v)

\* Then(r, K): the code K that follows a call runs with the call's result r,
\* unless the call threw: the exception leaves the function, which returns
\* nothing but the state
Then(r, K(_)) == IF r.st.exc THEN [st |-> r.st] ELSE K(r)

-----------------------------------------------------------------------------
(* Bounds of the model *)

\* units the sequential driver runs one after the other
MaxUnits == 2
\* arguments of a send on the left of a compound assignment
MaxArgs == 2
\* statements of a top-level Begin
MaxStmts == 3
\* surface parameters of a method, not counting a trailing block parameter
MaxParams == 2
\* fresh-name requests in a row in one scope of a nested-scope unit
MaxReqs == 2
\* nodes wrapped around a raising node
MaxDepth == 2
\* statements inside the `enums do` block of an enum class
MaxVals == 2
\* targets of a multiple assignment
MaxTargets == 3
\* parts of a string or symbol interpolation
MaxParts == 3
\* `when` clauses of a case, and patterns of one clause
MaxWhens == 2
MaxPatterns == 3
\* rescue clauses of one begin
MaxClauses == 2
\* operands of a return, break or next
MaxOperands == 3
\* method names of one undef
MaxUndefs == 2
\* requests a long scope makes one by one, after those that fill its counter
MaxMints == 4

\* u2 is a 16-bit unsigned integer: ++uniqueCounter wraps modulo 2^16
U2Mod == 65536

-----------------------------------------------------------------------------
(* Names (core::NameRef).  A plain name is interned text; a unique name is *)
(* identified by the triple handed to freshNameUnique.                     *)

Name(s) == [nk |-> "utf8", s |-> s]
ConstName(s) == [nk |-> "constant", s |-> s]
UniqueName(kind, base, num) == [nk |-> "unique", kind |-> kind, base |-> base, num |-> num]
noName == [nk |-> "none"]
NameExists(n) == n.nk # "none"
\* NameRef::addEq: the setter name "m="
addEq(n) == Name(n.s \o "=")

\* GlobalState::freshNameUnique interns the triple: equal triples, equal NameRef
freshNameUnique(kind, base, num) == UniqueName(kind, base, num)

-----------------------------------------------------------------------------
(* Locations.  A parse node's Loc is a positive number (its path from the  *)
(* root), Loc::none is 0 and copyWithZeroLength of L is -L.                *)

NoLoc == 0
LocExists(l) == l # NoLoc
copyWithZeroLength(l) == IF l > 0 THEN -l ELSE l
\* the Loc of the i-th child of the node at l
Sub(l, i) == l * 8 + i

-----------------------------------------------------------------------------
(* TAST nodes (spec 3.2) and the MK constructors of ast/Helpers.h.         *)

NoTree == [tag |-> "null", loc |-> NoLoc]
EmptyTree == [tag |-> "EmptyTree", loc |-> NoLoc]
UnresolvedIdent(loc, kind, name) ==
    [tag |-> "UnresolvedIdent", loc |-> loc, kind |-> kind, name |-> name]
\* MK::Local builds an UnresolvedIdent of kind Local
MK_Local(loc, name) == UnresolvedIdent(loc, "Local", name)
MK_Self(loc) == [tag |-> "Self", loc |-> loc]
MK_Constant(loc, symbol) == [tag |-> "ConstantLit", loc |-> loc, symbol |-> symbol]
MK_UnresolvedConstant(loc, scope, name) ==
    [tag |-> "UnresolvedConstantLit", loc |-> loc, scope |-> scope, cnst |-> name]
MK_Literal(loc, lk, val) == [tag |-> "Literal", loc |-> loc, lk |-> lk, val |-> val]
MK_Int(loc, n) == MK_Literal(loc, "int", n)
MK_String(loc, name) == MK_Literal(loc, "string", name)
MK_Symbol(loc, name) == MK_Literal(loc, "symbol", name)
MK_True(loc) == MK_Literal(loc, "true", TRUE)
MK_False(loc) == MK_Literal(loc, "false", FALSE)
MK_Nil(loc) == MK_Literal(loc, "nil", FALSE)
MK_SendB(loc, recv, fun, args, flags, block) ==
    [tag |-> "Send", loc |-> loc, recv |-> recv, fun |-> fun, args |-> args,
     flags |-> flags, block |-> block]
MK_Send(loc, recv, fun, args, flags) == MK_SendB(loc, recv, fun, args, flags, NoTree)
MK_Send0(loc, recv, fun) == MK_Send(loc, recv, fun, <<>>, {})
MK_Send1(loc, recv, fun, a1) == MK_Send(loc, recv, fun, <<a1>>, {})
MK_Send2(loc, recv, fun, a1, a2) == MK_Send(loc, recv, fun, <<a1, a2>>, {})
MK_Send3(loc, recv, fun, a1, a2, a3) == MK_Send(loc, recv, fun, <<a1, a2, a3>>, {})
MK_Block(loc, body, args) == [tag |-> "Block", loc |-> loc, args |-> args, body |-> body]
MK_AssignE(loc, lhs, rhs) == [tag |-> "Assign", loc |-> loc, lhs |-> lhs, rhs |-> rhs]
\* MK::Assign(loc, NameRef, rhs) assigns to the local of that name
MK_Assign(loc, name, rhs) == MK_AssignE(loc, MK_Local(loc, name), rhs)
MK_If(loc, cond, thenp, elsep) ==
    [tag |-> "If", loc |-> loc, cond |-> cond, thenp |-> thenp, elsep |-> elsep]
MK_While(loc, cond, body) == [tag |-> "While", loc |-> loc, cond |-> cond, body |-> body]
MK_Return(loc, e) == [tag |-> "Return", loc |-> loc, expr |-> e]
MK_Break(loc, e) == [tag |-> "Break", loc |-> loc, expr |-> e]
MK_Next(loc, e) == [tag |-> "Next", loc |-> loc, expr |-> e]
MK_Array(loc, elems) == [tag |-> "Array", loc |-> loc, elems |-> elems]
MK_Splat(loc, e) == [tag |-> "Splat", loc |-> loc, expr |-> e]
\* MK::InsSeq collapses to its expression when there are no statements
MK_InsSeq(loc, stats, expr) ==
    IF stats = <<>> THEN expr
    ELSE [tag |-> "InsSeq", loc |-> loc, stats |-> stats, expr |-> expr]
MK_InsSeq1(loc, stat, expr) == MK_InsSeq(loc, <<stat>>, expr)
\* make_unique<Rescue>(loc, body, cases, else, ensure)
MakeRescue(loc, body, rescueCases, else_, ensure) ==
    [tag |-> "Rescue", loc |-> loc, body |-> body, rescueCases |-> rescueCases,
     else_ |-> else_, ensure |-> ensure]
\* make_unique<RescueCase>(loc, exceptions, var, body)
MakeRescueCase(loc, exceptions, var, body) ==
    [tag |-> "RescueCase", loc |-> loc, exceptions |-> exceptions, var |-> var, body |-> body]
MK_BlockArg(loc, e) == [tag |-> "BlockArg", loc |-> loc, expr |-> e]
MK_RestArg(loc, e) == [tag |-> "RestArg", loc |-> loc, expr |-> e]
MK_KeywordArg(loc, e) == [tag |-> "KeywordArg", loc |-> loc, expr |-> e]
MK_ShadowArg(loc, e) == [tag |-> "ShadowArg", loc |-> loc, expr |-> e]
MK_OptionalArg(loc, e, default) ==
    [tag |-> "OptionalArg", loc |-> loc, expr |-> e, default |-> default]
MK_Method(loc, declLoc, name, args, rhs) ==
    [tag |-> "MethodDef", loc |-> loc, declLoc |-> declLoc, name |-> name,
     args |-> args, rhs |-> rhs, flags |-> {}]
ClassDef(loc, declLoc, symbol, name, ancestors, rhs, kind) ==
    [tag |-> "ClassDef", loc |-> loc, declLoc |-> declLoc, symbol |-> symbol,
     name |-> name, ancestors |-> ancestors, rhs |-> rhs, kind |-> kind]
MK_Class(loc, declLoc, name, ancestors, rhs) ==
    ClassDef(loc, declLoc, "todo", name, ancestors, rhs, "Class")
MK_Module(loc, declLoc, name, ancestors, rhs) ==
    ClassDef(loc, declLoc, "todo", name, ancestors, rhs, "Module")

isa_tree(t, tag) == t.tag = tag
\* ast::Reference is the base of the identifier and parameter nodes
ReferenceTags ==
    {"UnresolvedIdent", "RestArg", "KeywordArg", "OptionalArg", "BlockArg", "ShadowArg"}
isReference(t) == t.tag \in ReferenceTags
\* MK::cpRef copies a reference node
MK_cpRef(t) == t

\* the children of a TAST node, in field order
Kids(t) ==
    CASE t.tag = "Send" ->
           <<t.recv>> \o t.args \o (IF t.block = NoTree THEN <<>> ELSE <<t.block>>)
      [] t.tag = "Block" -> t.args \o <<t.body>>
      [] t.tag = "Assign" -> <<t.lhs, t.rhs>>
      [] t.tag = "If" -> <<t.cond, t.thenp, t.elsep>>
      [] t.tag = "While" -> <<t.cond, t.body>>
      [] t.tag \in {"Return", "Break", "Next", "Splat"} -> <<t.expr>>
      [] t.tag = "Array" -> t.elems
      [] t.tag = "InsSeq" -> t.stats \o <<t.expr>>
      [] t.tag \in {"BlockArg", "RestArg", "KeywordArg", "ShadowArg"} -> <<t.expr>>
      [] t.tag = "OptionalArg" -> <<t.expr, t.default>>
      [] t.tag = "MethodDef" -> t.args \o <<t.rhs>>
      [] t.tag = "ClassDef" -> <<t.name>> \o t.ancestors \o t.rhs
      [] t.tag = "UnresolvedConstantLit" -> <<t.scope>>
      [] t.tag = "Rescue" -> <<t.body>> \o t.rescueCases \o <<t.else_, t.ensure>>
      [] t.tag = "RescueCase" -> t.exceptions \o <<t.var, t.body>>
      [] OTHER -> <<>>

RECURSIVE SubtreesSeq(_)
\* every node of a tree, in preorder
Subtrees(t) == <<t>> \o SubtreesSeq(Kids(t))
SubtreesSeq(ts) ==
    IF ts = <<>> THEN <<>> ELSE Subtrees(Head(ts)) \o SubtreesSeq(Tail(ts))

SeqToSet(s) == {s[i] : i \in 1..Len(s)}
\* how many nodes of t equal x
Occurrences(x, t) == Cardinality({i \in 1..Len(Subtrees(t)) : Subtrees(t)[i] = x})

-----------------------------------------------------------------------------
(* Parse nodes (parser::Node): records tagged k, each with its Loc.        *)

NoNode == [k |-> "null", loc |-> NoLoc]
PNode(k, loc) == [k |-> k, loc |-> loc]
PSend(loc, receiver, method, args) ==
    [k |-> "Send", loc |-> loc, receiver |-> receiver, method |-> method, args |-> args]
PCSend(loc, receiver, method, args) ==
    [k |-> "CSend", loc |-> loc, receiver |-> receiver, method |-> method, args |-> args]
PConst(loc, scope, name) == [k |-> "Const", loc |-> loc, scope |-> scope, name |-> name]
PConstLhs(loc, scope, name) == [k |-> "ConstLhs", loc |-> loc, scope |-> scope, name |-> name]
PVar(k, loc, name) == [k |-> k, loc |-> loc, name |-> name]
PString(loc, val) == [k |-> "String", loc |-> loc, val |-> val]
PSymbol(loc, val) == [k |-> "Symbol", loc |-> loc, val |-> val]
PBegin(loc, stmts) == [k |-> "Begin", loc |-> loc, stmts |-> stmts]
PKwbegin(loc, stmts) == [k |-> "Kwbegin", loc |-> loc, stmts |-> stmts]
PAnd(loc, left, right) == [k |-> "And", loc |-> loc, left |-> left, right |-> right]
POr(loc, left, right) == [k |-> "Or", loc |-> loc, left |-> left, right |-> right]
PAndAsgn(loc, left, right) == [k |-> "AndAsgn", loc |-> loc, left |-> left, right |-> right]
POrAsgn(loc, left, right) == [k |-> "OrAsgn", loc |-> loc, left |-> left, right |-> right]
POpAsgn(loc, left, op, right) ==
    [k |-> "OpAsgn", loc |-> loc, left |-> left, op |-> op, right |-> right]
PAssign(loc, lhs, rhs) == [k |-> "Assign", loc |-> loc, lhs |-> lhs, rhs |-> rhs]
PMasgn(loc, lhs, rhs) == [k |-> "Masgn", loc |-> loc, lhs |-> lhs, rhs |-> rhs]
PMlhs(loc, exprs) == [k |-> "Mlhs", loc |-> loc, exprs |-> exprs]
PCase(loc, condition, whens, else_) ==
    [k |-> "Case", loc |-> loc, condition |-> condition, whens |-> whens, else_ |-> else_]
PWhen(loc, patterns, body) == [k |-> "When", loc |-> loc, patterns |-> patterns, body |-> body]
PRescue(loc, body, rescue, else_) ==
    [k |-> "Rescue", loc |-> loc, body |-> body, rescue |-> rescue, else_ |-> else_]
PResbody(loc, exception, var, body) ==
    [k |-> "Resbody", loc |-> loc, exception |-> exception, var |-> var, body |-> body]
\* Return, Break and Next
PExit(k, loc, exprs) == [k |-> k, loc |-> loc, exprs |-> exprs]
PUndef(loc, exprs) == [k |-> "Undef", loc |-> loc, exprs |-> exprs]
\* parser::Integer; val is the text of the literal, character by character
PInteger(loc, val) == [k |-> "Integer", loc |-> loc, val |-> val]
PEnsure(loc, body, ensure) == [k |-> "Ensure", loc |-> loc, body |-> body, ensure |-> ensure]
PFor(loc, variables, expr, body) ==
    [k |-> "For", loc |-> loc, vars |-> variables, expr |-> expr, body |-> body]
PDString(loc, nodes) == [k |-> "DString", loc |-> loc, nodes |-> nodes]
PDSymbol(loc, nodes) == [k |-> "DSymbol", loc |-> loc, nodes |-> nodes]
PSplatLhs(loc, var) == [k |-> "SplatLhs", loc |-> loc, var |-> var]
PSplat(loc, var) == [k |-> "Splat", loc |-> loc, var |-> var]
PArray(loc, elts) == [k |-> "Array", loc |-> loc, elts |-> elts]
PBlockPass(loc, block) == [k |-> "BlockPass", loc |-> loc, block |-> block]
PBlock(loc, send, args, body) ==
    [k |-> "Block", loc |-> loc, send |-> send, args |-> args, body |-> body]
PIf(loc, condition, then_, else_) ==
    [k |-> "If", loc |-> loc, condition |-> condition, then_ |-> then_, else_ |-> else_]
PArgs(loc, args) == [k |-> "Args", loc |-> loc, args |-> args]
\* Arg, Restarg, Kwarg, Kwrestarg, Blockarg, Shadowarg
PArg(k, loc, name) == [k |-> k, loc |-> loc, nameLoc |-> loc, name |-> name]
\* Optarg, Kwoptarg
POptarg(k, loc, name, default_) ==
    [k |-> k, loc |-> loc, nameLoc |-> loc, name |-> name, default_ |-> default_]
PDefMethod(loc, name, args, body) ==
    [k |-> "DefMethod", loc |-> loc, declLoc |-> loc, name |-> name, args |-> args,
     body |-> body]
PDefS(loc, singleton, name, args, body) ==
    [k |-> "DefS", loc |-> loc, declLoc |-> loc, singleton |-> singleton, name |-> name,
     args |-> args, body |-> body]
PClass(loc, name, superclass, body) ==
    [k |-> "Class", loc |-> loc, declLoc |-> loc, name |-> name,
     superclass |-> superclass, body |-> body]
PModule(loc, name, body) ==
    [k |-> "Module", loc |-> loc, declLoc |-> loc, name |-> name, body |-> body]
PSClass(loc, expr, body) ==
    [k |-> "SClass", loc |-> loc, declLoc |-> loc, expr |-> expr, body |-> body]

-----------------------------------------------------------------------------
(* The state of one desugar run, threaded through the recursion:           *)
(*   ctr    the uniqueCounter variables, one per scope entered so far      *)
(*   log    the freshNameUnique requests, in request order                 *)
(*   diags  the diagnostics emitted (beginError), in order                 *)
(*   exc    a SorbetException is propagating                               *)
(*   rep    locReported                                                    *)
(*   caught the Locs of the node2TreeImpl frames whose catch clause ran    *)
(*   isRBI  the file attribute file.isRBI() of the unit                    *)
(*   blk    per method built, the block-argument name its body was         *)
(*          desugared under (dctx2.enclosingBlockArg)                      *)

RunState(rep, isRBI) ==
    [ctr |-> <<>>, log |-> <<>>, diags |-> <<>>, exc |-> FALSE, rep |-> rep,
     caught |-> <<>>, isRBI |-> isRBI, blk |-> <<>>]

\* struct DesugarContext; uniqueCounter is a reference to a scope's counter
DesugarContext(uniqueCounter, enclosingBlockArg, enclosingMethodLoc, enclosingMethodName) ==
    [uniqueCounter |-> uniqueCounter, enclosingBlockArg |-> enclosingBlockArg,
     enclosingMethodLoc |-> enclosingMethodLoc,
     enclosingMethodName |-> enclosingMethodName]

R(t, st) == [t |-> t, st |-> st]

Diag(code, loc) == [code |-> code, loc |-> loc]
\* ctx.state.beginError(loc, code): nothing runs while an exception propagates
beginError(st, loc, code) ==
    IF st.exc THEN st ELSE [st EXCEPT !.diags = Append(@, Diag(code, loc))]
\* Exception::raise / Exception::notImplemented
raise(st) == [st EXCEPT !.exc = TRUE]

\* ENFORCE(cond, ...): a build with debug_mode raises when cond fails, any
\* other build does not evaluate the check
ENFORCE(cond, st) == IF debug_mode /\ ~cond THEN raise(st) ELSE st

\* `u2 uniqueCounter = 1;` a new counter variable, named by its index
newCounter(st) == [st EXCEPT !.ctr = Append(@, 1)]
\* a faulty increment that leaves the counter where it is
preIncrement_stuck(dctx, st) == st

\* ++dctx.uniqueCounter on a u2
preIncrement(dctx, st) ==
    [st EXCEPT !.ctr[dctx.uniqueCounter] = (@ + 1) % U2Mod]
\* a faulty request that passes dctx.uniqueCounter++
freshDesugarName_postIncrement(dctx, base, st) ==
    IF st.exc THEN [name |-> noName, st |-> st]
    ELSE LET st1 == preIncrement(dctx, st)
             num == st.ctr[dctx.uniqueCounter]
         IN [name |-> freshNameUnique("Desugar", base, num),
             st |-> [st1 EXCEPT !.log = Append(@, [scope |-> dctx.uniqueCounter,
                                                  kind |-> "Desugar",
                                                  base |-> base, num |-> num])]]

\* dctx.ctx.state.freshNameUnique(UniqueNameKind::Desugar, base, ++dctx.uniqueCounter)
freshDesugarName(dctx, base, st) ==
    IF st.exc THEN [name |-> noName, st |-> st]
    ELSE LET st1 == preIncrement(dctx, st)
             num == st1.ctr[dctx.uniqueCounter]
         IN [name |-> freshNameUnique("Desugar", base, num),
             st |-> [st1 EXCEPT !.log = Append(@, [scope |-> dctx.uniqueCounter,
                                                  kind |-> "Desugar",
                                                  base |-> base, num |-> num])]]

-----------------------------------------------------------------------------
(* The desugarer.  Every operator takes the run state last and returns     *)
(* the tree it built with the state it left; a call made while an          *)
(* exception propagates does nothing.                                      *)

RECURSIVE node2TreeImpl(_, _, _)
RECURSIVE desugarNodes(_, _, _)
RECURSIVE desugarArgsLoop(_, _, _, _, _)
RECURSIVE desugarMlhs(_, _, _, _, _)
RECURSIVE desugarMlhsLoop(_, _, _, _, _, _)

\* node2TreeImpl on each node of a list, left to right
desugarNodes(dctx, nodes, st) ==
    IF nodes = <<>> THEN [ts |-> <<>>, st |-> st]
    ELSE Then(node2TreeImpl(dctx, Head(nodes), st), LAMBDA h :
         Then(desugarNodes(dctx, Tail(nodes), h.st), LAMBDA rest :
            [ts |-> <<h.t>> \o rest.ts, st |-> rest.st]))

\* BlockArg must wrap UnresolvedIdent
blockArg2Name(blkArg) ==
    IF blkArg.tag = "BlockArg" /\ blkArg.expr.tag = "UnresolvedIdent"
    THEN blkArg.expr.name ELSE noName

\* the loop of desugarArgs over oargs->args; acc holds args and destructures
desugarArgsLoop(dctx, oargs, i, acc, st) ==
    IF i > Len(oargs) THEN [args |-> acc.args, destructures |-> acc.destructures, st |-> st]
    ELSE LET arg == oargs[i] IN
         IF arg.k = "Mlhs"
         THEN Then(freshDesugarName(dctx, Name("destructureArg"), st), LAMBDA f :
              LET lvarNode == PVar("LVar", arg.loc, f.name)
                  destructure == PMasgn(arg.loc, arg, lvarNode) IN
              Then(node2TreeImpl(dctx, destructure, f.st), LAMBDA d :
                 desugarArgsLoop(dctx, oargs, i + 1,
                     [args |-> Append(acc.args, MK_Local(arg.loc, f.name)),
                      destructures |-> Append(acc.destructures, d.t)], d.st)))
         ELSE Then(node2TreeImpl(dctx, arg, st), LAMBDA a :
                 desugarArgsLoop(dctx, oargs, i + 1,
                     [args |-> Append(acc.args, a.t),
                      destructures |-> acc.destructures], a.st))

desugarArgs(dctx, loc, argnode, st) ==
    IF argnode.k = "Args"
    THEN desugarArgsLoop(dctx, argnode.args, 1, [args |-> <<>>, destructures |-> <<>>], st)
    ELSE IF argnode = NoNode
         THEN [args |-> <<>>, destructures |-> <<>>, st |-> st]
         ELSE [args |-> <<>>, destructures |-> <<>>, st |-> raise(st)]

desugarBody(dctx, loc, bodynode, destructures, st) ==
    Then(node2TreeImpl(dctx, bodynode, st), LAMBDA body :
       IF destructures # <<>>
       THEN R(MK_InsSeq(loc, destructures, body.t), body.st)
       ELSE body)

isIVarAssign(stat) ==
    /\ stat.tag = "Assign"
    /\ stat.lhs.tag = "UnresolvedIdent"
    /\ stat.lhs.kind = "Instance"

CodeInRBI(loc) == Diag("CodeInRBI", loc)
\* the CodeInRBI diagnostics of an InsSeq body, statement by statement
RBIStatErrors(inseq) ==
    SelectSeq([i \in 1..Len(inseq.stats) |->
                  IF isIVarAssign(inseq.stats[i]) THEN Diag("none", NoLoc)
                  ELSE CodeInRBI(inseq.stats[i].loc)],
              LAMBDA d : d.code # "none")
      \o (IF isIVarAssign(inseq.expr) THEN <<>> ELSE <<CodeInRBI(inseq.expr.loc)>>)

\* validateRBIBody returns the body as it is; its effect is the diagnostics
validateRBIBody(dctx, body, st) ==
    IF st.exc THEN R(body, st)
    ELSE IF ~LocExists(body.loc) THEN R(body, st)
    ELSE IF ~st.isRBI THEN R(body, st)
    ELSE IF isa_tree(body, "EmptyTree") THEN R(body, st)
    ELSE IF isa_tree(body, "Assign")
         THEN R(body, IF isIVarAssign(body) THEN st
                      ELSE beginError(st, body.loc, "CodeInRBI"))
    ELSE IF isa_tree(body, "InsSeq")
         THEN R(body, [st EXCEPT !.diags = @ \o RBIStatErrors(body)])
    ELSE R(body, beginError(st, body.loc, "CodeInRBI"))

\* a faulty appendBlkArg that looks only at whether the list is empty
appendBlkArg_onlyWhenEmpty(args, loc) ==
    IF args = <<>>
    THEN Append(args, MK_BlockArg(NoLoc, MK_Local(NoLoc, Name("<blkArg>"))))
    ELSE args

\* lines 213-216: make the parameter list end with a BlockArg
appendBlkArg(args, loc) ==
    IF args = <<>> \/ ~isa_tree(args[Len(args)], "BlockArg")
    THEN Append(args, MK_BlockArg(NoLoc, MK_Local(NoLoc, Name("<blkArg>"))))
    ELSE args

buildMethod(dctx, loc, declLoc, name, argnode, body, isSelf, st) ==
    LET st1 == newCounter(st)
        uniqueCounter == Len(st1.ctr)
        dctx1 == DesugarContext(uniqueCounter, dctx.enclosingBlockArg, declLoc, name) IN
    Then(desugarArgs(dctx1, loc, argnode, st1), LAMBDA a :
    LET args == appendBlkArg(a.args, loc)
        enclosingBlockArg == blockArg2Name(args[Len(args)])
        dctx2 == DesugarContext(dctx1.uniqueCounter, enclosingBlockArg, declLoc, name) IN
    Then(desugarBody(dctx2, loc, body, a.destructures, a.st), LAMBDA b :
    Then(validateRBIBody(dctx, b.t, b.st), LAMBDA v :
    LET mdef == MK_Method(loc, declLoc, name, args, v.t) IN
       IF v.st.exc THEN R(NoTree, v.st)
       ELSE R(IF isSelf THEN [mdef EXCEPT !.flags = @ \cup {"SelfMethod"}] ELSE mdef,
              [v.st EXCEPT !.blk = Append(@, [method |-> loc, name |-> enclosingBlockArg])]))))

symbol2Proc(dctx, expr, st) ==
    LET loc == expr.loc IN
    Then(freshDesugarName(dctx, Name("blockPassTemp"), st), LAMBDA f :
    LET name == expr.val
        zeroLengthLoc == copyWithZeroLength(loc)
        recv == MK_Local(zeroLengthLoc, f.name)
        body == MK_Send0(loc, recv, name) IN
       R(MK_Block(loc, body, <<MK_Local(zeroLengthLoc, f.name)>>), f.st))

unsupportedNode(dctx, node, st) ==
    R(EmptyTree, beginError(st, node.loc, "UnsupportedNode"))

\* the loop of desugarMlhs over lhs->exprs; v holds i, before, after, didSplat, stats
desugarMlhsLoop(dctx, loc, lhs, tempExpanded, v, st) ==
    IF v.n > Len(lhs.exprs) THEN [v |-> v, st |-> st]
    ELSE LET c == lhs.exprs[v.n] IN
         IF c.k = "SplatLhs"
         THEN Then([st |-> ENFORCE(~v.didSplat, st)], LAMBDA e :
              Then(node2TreeImpl(dctx, c.var, e.st), LAMBDA lh :
              LET left == v.i
                  right0 == Len(lhs.exprs) - left - 1
                  bound == ~isa_tree(lh.t, "EmptyTree")
                  right == IF bound /\ right0 = 0 THEN 1 ELSE right0
                  exclusive == IF right0 = 0 THEN MK_False(lh.t.loc) ELSE MK_True(lh.t.loc)
                  lhloc == lh.t.loc
                  index == MK_Send3(lhloc, MK_Constant(lhloc, "Range"), Name("new"),
                                    MK_Int(lhloc, left), MK_Int(lhloc, -right), exclusive)
                  asgn == MK_AssignE(lhloc, lh.t,
                              MK_Send1(loc, MK_Local(loc, tempExpanded), Name("slice"), index)) IN
                 desugarMlhsLoop(dctx, loc, lhs, tempExpanded,
                     [v EXCEPT !.n = @ + 1, !.didSplat = TRUE, !.i = -right,
                               !.stats = IF bound THEN Append(@, asgn) ELSE @], lh.st)))
         ELSE LET v1 == IF v.didSplat THEN [v EXCEPT !.after = @ + 1]
                        ELSE [v EXCEPT !.before = @ + 1]
                  val == MK_Send1(loc, MK_Local(loc, tempExpanded), Name("[]"),
                                  MK_Int(loc, v.i))
              IN IF c.k = "Mlhs"
                 THEN Then(desugarMlhs(dctx, c.loc, c, val, st), LAMBDA m :
                         desugarMlhsLoop(dctx, loc, lhs, tempExpanded,
                             [v1 EXCEPT !.n = @ + 1, !.i = @ + 1,
                                        !.stats = Append(@, m.t)], m.st))
                 ELSE Then(node2TreeImpl(dctx, c, st), LAMBDA lh0 :
                      LET isRest == isa_tree(lh0.t, "RestArg")
                          st1 == IF isRest
                                 THEN beginError(lh0.st, lh0.t.loc,
                                                 "UnsupportedRestArgsDestructure")
                                 ELSE lh0.st
                          lh == IF isRest THEN lh0.t.expr ELSE lh0.t IN
                         desugarMlhsLoop(dctx, loc, lhs, tempExpanded,
                             [v1 EXCEPT !.n = @ + 1, !.i = @ + 1,
                                        !.stats = Append(@, MK_AssignE(lh.loc, lh, val))],
                             st1))

\* a faulty desugarMlhs that passes before = 0 for a list without a splat
desugarMlhs_countsAfterOnly(dctx, loc, lhs, rhs, st) ==
    Then(freshDesugarName(dctx, Name("assignTemp"), st), LAMBDA f1 :
    LET tempRhs == f1.name IN
    Then(freshDesugarName(dctx, Name("assignTemp"), f1.st), LAMBDA f2 :
    LET tempExpanded == f2.name IN
    Then(desugarMlhsLoop(dctx, loc, lhs, tempExpanded,
             [n |-> 1, i |-> 0, before |-> 0, after |-> 0, didSplat |-> FALSE,
              stats |-> <<>>], f2.st), LAMBDA l :
    LET expanded == MK_Send3(loc, MK_Constant(loc, "Magic"), Name("expandSplat"),
                             MK_Local(loc, tempRhs),
                             MK_Int(loc, IF l.v.didSplat THEN l.v.before ELSE 0),
                             MK_Int(loc, l.v.after))
        stats == <<MK_Assign(loc, tempRhs, rhs), MK_Assign(loc, tempExpanded, expanded)>>
                     \o l.v.stats IN
       IF l.st.exc THEN R(NoTree, l.st)
       ELSE R(MK_InsSeq(loc, stats, MK_Local(loc, tempRhs)), l.st))))

\* a faulty desugarMlhs whose sequence evaluates to the expanded array
desugarMlhs_yieldsExpanded(dctx, loc, lhs, rhs, st) ==
    Then(freshDesugarName(dctx, Name("assignTemp"), st), LAMBDA f1 :
    LET tempRhs == f1.name IN
    Then(freshDesugarName(dctx, Name("assignTemp"), f1.st), LAMBDA f2 :
    LET tempExpanded == f2.name IN
    Then(desugarMlhsLoop(dctx, loc, lhs, tempExpanded,
             [n |-> 1, i |-> 0, before |-> 0, after |-> 0, didSplat |-> FALSE,
              stats |-> <<>>], f2.st), LAMBDA l :
    LET expanded == MK_Send3(loc, MK_Constant(loc, "Magic"), Name("expandSplat"),
                             MK_Local(loc, tempRhs), MK_Int(loc, l.v.before),
                             MK_Int(loc, l.v.after))
        stats == <<MK_Assign(loc, tempRhs, rhs), MK_Assign(loc, tempExpanded, expanded)>>
                     \o l.v.stats IN
       IF l.st.exc THEN R(NoTree, l.st)
       ELSE R(MK_InsSeq(loc, stats, MK_Local(loc, tempExpanded)), l.st))))

\* lines 256-326
desugarMlhs(dctx, loc, lhs, rhs, st) ==
    Then(freshDesugarName(dctx, Name("assignTemp"), st), LAMBDA f1 :
    LET tempRhs == f1.name IN
    Then(freshDesugarName(dctx, Name("assignTemp"), f1.st), LAMBDA f2 :
    LET tempExpanded == f2.name IN
    Then(desugarMlhsLoop(dctx, loc, lhs, tempExpanded,
             [n |-> 1, i |-> 0, before |-> 0, after |-> 0, didSplat |-> FALSE,
              stats |-> <<>>], f2.st), LAMBDA l :
    LET expanded == MK_Send3(loc, MK_Constant(loc, "Magic"), Name("expandSplat"),
                             MK_Local(loc, tempRhs), MK_Int(loc, l.v.before),
                             MK_Int(loc, l.v.after))
        stats == <<MK_Assign(loc, tempRhs, rhs), MK_Assign(loc, tempExpanded, expanded)>>
                     \o l.v.stats IN
       IF l.st.exc THEN R(NoTree, l.st)
       ELSE R(MK_InsSeq(loc, stats, MK_Local(loc, tempRhs)), l.st))))

\* `u2 uniqueCounter = 1; DesugarContext dctx1(...)` of scopeNodeToBody
scopeContext(dctx, st) ==
    DesugarContext(Len(st.ctr), dctx.enclosingBlockArg, dctx.enclosingMethodLoc,
                   dctx.enclosingMethodName)

\* returns the class body (a list) in field ts
scopeNodeToBody(dctx, node, st) ==
    LET st1 == newCounter(st)
        dctx1 == scopeContext(dctx, st1)
    IN IF node.k = "Begin"
       THEN desugarNodes(dctx1, node.stmts, st1)
       ELSE Then(node2TreeImpl(dctx1, node, st1), LAMBDA b :
               [ts |-> <<b.t>>, st |-> b.st])

RECURSIVE copyArgsLoop(_, _, _, _, _)
\* the loop of copyArgsForOpAsgn over s->args
copyArgsLoop(dctx, s, i, acc, st) ==
    IF i > Len(s.args) THEN [acc |-> acc, st |-> st]
    ELSE LET arg == s.args[i]
             argLoc == arg.loc IN
         Then(freshDesugarName(dctx, s.fun, st), LAMBDA f :
            copyArgsLoop(dctx, s, i + 1,
                [stats |-> Append(acc.stats, MK_Assign(argLoc, f.name, arg)),
                 readArgs |-> Append(acc.readArgs, MK_Local(argLoc, f.name)),
                 assgnArgs |-> Append(acc.assgnArgs, MK_Local(argLoc, f.name))], f.st))

\* struct OpAsgnScaffolding, with the state left
copyArgsForOpAsgn(dctx, s, st) ==
    Then(freshDesugarName(dctx, s.fun, st), LAMBDA f :
    LET tempRecv == f.name IN
    Then(copyArgsLoop(dctx, s, 1,
             [stats |-> <<MK_Assign(s.loc, tempRecv, s.recv)>>, readArgs |-> <<>>,
              assgnArgs |-> <<>>], f.st), LAMBDA l :
       [temporaryName |-> tempRecv, statementBody |-> l.acc.stats,
        readArgs |-> l.acc.readArgs, assgnArgs |-> l.acc.assgnArgs, st |-> l.st]))

doUntil(dctx, loc, cond, body) ==
    LET breaker == MK_If(loc, cond, MK_Break(loc, EmptyTree), EmptyTree)
        breakWithBody == MK_InsSeq1(loc, body, breaker)
    IN MK_While(loc, MK_True(loc), breakWithBody)

-----------------------------------------------------------------------------
(* The arms of node2TreeImpl's typecase, one operator per parse-node kind. *)

isSymbolLit(t) == t.tag = "Literal" /\ t.lk = "symbol"
isStringLitTree(t) == t.tag = "Literal" /\ t.lk = "string"
RECURSIVE JoinNames(_)
\* fmt::map_join over stringsAccumulated with the separator "": the text of
\* each literal in turn, and no text for an EmptyTree
JoinNames(strs) ==
    IF strs = <<>> THEN ""
    ELSE (IF isa_tree(Head(strs), "EmptyTree") THEN "" ELSE Head(strs).val.s)
            \o JoinNames(Tail(strs))

\* a faulty mergeStrings that hands back the last literal for the whole run
mergeStrings_keepsLast(dctx, loc, stringsAccumulated) ==
    stringsAccumulated[Len(stringsAccumulated)]

\* lines 89-104
mergeStrings(dctx, loc, stringsAccumulated) ==
    IF Len(stringsAccumulated) = 1 THEN stringsAccumulated[1]
    ELSE MK_String(loc, Name(JoinNames(stringsAccumulated)))

\* lines 129-132: a piece that is no string literal and no EmptyTree is
\* wrapped in `.to_s` at its own Loc
toSPiece(narg) ==
    IF ~isStringLitTree(narg) /\ ~isa_tree(narg, "EmptyTree")
    THEN MK_Send0(narg.loc, narg, Name("to_s"))
    ELSE narg

RECURSIVE desugarDStringLoop(_, _, _, _, _, _)
\* lines 126-143, the loop over the parts behind the first; acc holds res,
\* stringsAccumulated and allStringsSoFar
desugarDStringLoop(dctx, loc, nodes, i, acc, st) ==
    IF i > Len(nodes) THEN [acc |-> acc, st |-> st]
    ELSE Then(node2TreeImpl(dctx, nodes[i], st), LAMBDA n :
         LET narg == toSPiece(n.t)
             acc1 == IF acc.allStringsSoFar /\ isStringLitTree(narg)
                     THEN [acc EXCEPT !.stringsAccumulated = Append(@, narg)]
                     ELSE IF isa_tree(narg, "EmptyTree") THEN acc
                     ELSE LET res == IF acc.allStringsSoFar
                                     THEN mergeStrings(dctx, loc, acc.stringsAccumulated)
                                     ELSE acc.res
                          IN [acc EXCEPT !.allStringsSoFar = FALSE,
                                         !.res = MK_Send1(loc, res, Name("concat"), narg)] IN
            desugarDStringLoop(dctx, loc, nodes, i + 1, acc1, n.st))

\* lines 106-149
desugarDString(dctx, loc, nodes, st) ==
    IF nodes = <<>> THEN R(MK_String(loc, Name("")), st)
    ELSE Then(node2TreeImpl(dctx, nodes[1], st), LAMBDA first :
         LET acc == IF isStringLitTree(first.t) \/ isa_tree(first.t, "EmptyTree")
                    THEN [res |-> NoTree, stringsAccumulated |-> <<first.t>>,
                          allStringsSoFar |-> TRUE]
                    ELSE [res |-> MK_Send0(first.t.loc, first.t, Name("to_s")),
                          stringsAccumulated |-> <<>>, allStringsSoFar |-> FALSE] IN
         Then(desugarDStringLoop(dctx, loc, nodes, 2, acc, first.st), LAMBDA l :
            IF l.acc.allStringsSoFar
            THEN R(mergeStrings(dctx, loc, l.acc.stringsAccumulated), l.st)
            ELSE R(l.acc.res, l.st)))

RECURSIVE DSymbolLoop(_, _, _, _, _, _)
\* lines 832-839, the loop of the DSymbol arm over the parts behind the first
DSymbolLoop(dctx, loc, nodes, i, res, st) ==
    IF i > Len(nodes) THEN R(res, st)
    ELSE Then(node2TreeImpl(dctx, nodes[i], st), LAMBDA n :
         LET narg == IF ~isStringLitTree(n.t) THEN MK_Send0(loc, n.t, Name("to_s"))
                     ELSE n.t IN
            DSymbolLoop(dctx, loc, nodes, i + 1, MK_Send1(loc, res, Name("concat"), narg),
                        n.st))

\* lines 814-843
node2TreeImpl_DSymbol(dctx, dsymbol, st) ==
    LET loc == dsymbol.loc IN
    IF dsymbol.nodes = <<>> THEN R(MK_Symbol(loc, Name("")), st)
    ELSE Then(node2TreeImpl(dctx, dsymbol.nodes[1], st), LAMBDA first :
         LET res == IF isStringLitTree(first.t) THEN first.t
                    ELSE MK_Send0(loc, first.t, Name("to_s")) IN
         Then(DSymbolLoop(dctx, loc, dsymbol.nodes, 2, res, first.st), LAMBDA l :
            R(MK_Send0(loc, l.t, Name("intern")), l.st)))

IndexOfKind(nodes, k) ==
    IF \E i \in 1..Len(nodes) : nodes[i].k = k
    THEN CHOOSE i \in 1..Len(nodes) :
             nodes[i].k = k /\ \A j \in 1..(i - 1) : nodes[j].k # k
    ELSE 0
WithoutIndex(nodes, i) == [j \in 1..(Len(nodes) - 1) |-> IF j < i THEN nodes[j] ELSE nodes[j + 1]]

\* a send with a splat among its arguments (lines 434-476)
SendWithSplat(dctx, send, rec, st) ==
    LET loc == send.loc
        bpi == IndexOfKind(send.args, "BlockPass")
        block == IF bpi = 0 THEN NoNode ELSE send.args[bpi].block
        argnodes == IF bpi = 0 THEN send.args ELSE WithoutIndex(send.args, bpi)
        array == PArray(loc, argnodes) IN
    Then(node2TreeImpl(dctx, array, st), LAMBDA args :
    LET method == MK_Symbol(loc, send.method)
        sendargs == <<rec, method, args.t>>
        magic == MK_Constant(loc, "Magic") IN
       IF block = NoNode
       THEN R(MK_Send(loc, magic, Name("callWithSplat"), sendargs, {}), args.st)
       ELSE Then(node2TreeImpl(dctx, block, args.st), LAMBDA convertedBlock :
               IF isSymbolLit(convertedBlock.t)
               THEN Then(symbol2Proc(dctx, convertedBlock.t, convertedBlock.st), LAMBDA sp :
                       R(MK_SendB(loc, magic, Name("callWithSplat"), sendargs, {}, sp.t),
                         sp.st))
               ELSE R(MK_Send(loc, magic, Name("callWithSplatAndBlock"),
                              Append(sendargs, convertedBlock.t), {}), convertedBlock.st)))

LastIndexOfKind(nodes, k) ==
    IF \E i \in 1..Len(nodes) : nodes[i].k = k
    THEN CHOOSE i \in 1..Len(nodes) :
             nodes[i].k = k /\ \A j \in (i + 1)..Len(nodes) : nodes[j].k # k
    ELSE 0

\* a send without splat (lines 478-521)
SendPlain(dctx, send, rec, flags, st) ==
    LET loc == send.loc
        bpi == LastIndexOfKind(send.args, "BlockPass")
        block == IF bpi = 0 THEN NoNode ELSE send.args[bpi].block IN
    Then(desugarNodes(dctx, SelectSeq(send.args, LAMBDA n : n.k # "BlockPass"), st), LAMBDA a :
    LET args == a.ts IN
    Then(IF block = NoNode
         THEN R(MK_Send(loc, rec, send.method, args, flags), a.st)
         ELSE LET method == MK_Symbol(loc, send.method) IN
              Then(node2TreeImpl(dctx, block, a.st), LAMBDA convertedBlock :
                 IF isSymbolLit(convertedBlock.t)
                 THEN Then(symbol2Proc(dctx, convertedBlock.t, convertedBlock.st), LAMBDA sp :
                         R(MK_SendB(loc, rec, send.method, args, flags, sp.t), sp.st))
                 ELSE R(MK_Send(loc, MK_Constant(loc, "Magic"), Name("callWithBlock"),
                                <<rec, method, convertedBlock.t>> \o args, {}),
                        convertedBlock.st)), LAMBDA res :
       IF send.method = Name("block_given?") /\ NameExists(dctx.enclosingBlockArg)
       THEN R(MK_If(loc, MK_Local(loc, dctx.enclosingBlockArg), res.t, MK_False(loc)), res.st)
       ELSE res))

node2TreeImpl_Send(dctx, send, st) ==
    LET loc == send.loc IN
    Then(node2TreeImpl(dctx, send.receiver, st), LAMBDA r :
    LET implicit == isa_tree(r.t, "EmptyTree")
        rec == IF implicit THEN MK_Self(copyWithZeroLength(loc)) ELSE r.t
        flags == IF implicit THEN {"PRIVATE_OK"} ELSE {} IN
       IF \E i \in 1..Len(send.args) : send.args[i].k = "Splat"
       THEN SendWithSplat(dctx, send, rec, r.st)
       ELSE SendPlain(dctx, send, rec, flags, r.st))

node2TreeImpl_Const(dctx, const_, st) ==
    Then(node2TreeImpl(dctx, const_.scope, st), LAMBDA scope :
       R(MK_UnresolvedConstant(const_.loc, scope.t, const_.name), scope.st))

\* Begin and Kwbegin differ in what an empty statement list gives
node2TreeImpl_Begin(dctx, begin, st) ==
    IF begin.stmts # <<>>
    THEN LET n == Len(begin.stmts) IN
         Then(desugarNodes(dctx, SubSeq(begin.stmts, 1, n - 1), st), LAMBDA stats :
         Then(node2TreeImpl(dctx, begin.stmts[n], stats.st), LAMBDA expr :
            R(MK_InsSeq(begin.loc, stats.ts, expr.t), expr.st)))
    ELSE R(IF begin.k = "Begin" THEN MK_Nil(begin.loc) ELSE EmptyTree, st)

node2TreeImpl_And(dctx, and_, st) ==
    LET loc == and_.loc IN
    Then(node2TreeImpl(dctx, and_.left, st), LAMBDA lhs :
    Then(node2TreeImpl(dctx, and_.right, lhs.st), LAMBDA rhs :
       IF isReference(lhs.t)
       THEN R(MK_If(loc, MK_cpRef(lhs.t), rhs.t, lhs.t), rhs.st)
       ELSE Then(freshDesugarName(dctx, Name("andAnd"), rhs.st), LAMBDA f :
            LET temp == MK_Assign(loc, f.name, lhs.t)
                iff == MK_If(loc, MK_Local(loc, f.name), rhs.t, MK_Local(loc, f.name)) IN
               R(MK_InsSeq1(loc, temp, iff), f.st))))

node2TreeImpl_Or(dctx, or_, st) ==
    LET loc == or_.loc IN
    Then(node2TreeImpl(dctx, or_.left, st), LAMBDA lhs :
    Then(node2TreeImpl(dctx, or_.right, lhs.st), LAMBDA rhs :
       IF isReference(lhs.t)
       THEN R(MK_If(loc, MK_cpRef(lhs.t), lhs.t, rhs.t), rhs.st)
       ELSE Then(freshDesugarName(dctx, Name("orOr"), rhs.st), LAMBDA f :
            LET temp == MK_Assign(loc, f.name, lhs.t)
                iff == MK_If(loc, MK_Local(loc, f.name), MK_Local(loc, f.name), rhs.t) IN
               R(MK_InsSeq1(loc, temp, iff), f.st))))

\* lines 600-613 and 638-650: `s &&= arg` for a send s
AndAsgnSend(dctx, loc, s, arg, st) ==
    LET sendLoc == s.loc IN
    Then(copyArgsForOpAsgn(dctx, s, st), LAMBDA sc :
    LET tempRecv == sc.temporaryName
        assgnArgs == Append(sc.assgnArgs, arg)
        cond == MK_Send(sendLoc, MK_Local(sendLoc, tempRecv), s.fun, sc.readArgs, s.flags) IN
    Then(freshDesugarName(dctx, s.fun, sc.st), LAMBDA f :
    LET tempResult == f.name
        stats == Append(sc.statementBody, MK_Assign(sendLoc, tempResult, cond))
        body == MK_Send(sendLoc, MK_Local(sendLoc, tempRecv), addEq(s.fun), assgnArgs,
                        s.flags)
        elsep == MK_Local(sendLoc, tempResult)
        iff == MK_If(sendLoc, MK_Local(sendLoc, tempResult), body, elsep) IN
       R(MK_InsSeq(loc, stats, iff), f.st)))

\* a faulty `s ||= arg` that writes when the value read is truthy
OrAsgnSend_writesWhenSet(dctx, loc, s, arg, st) ==
    AndAsgnSend(dctx, loc, s, arg, st)

\* lines 663-675 and 700-712: `s ||= arg` for a send s
OrAsgnSend(dctx, loc, s, arg, st) ==
    LET sendLoc == s.loc IN
    Then(copyArgsForOpAsgn(dctx, s, st), LAMBDA sc :
    LET tempRecv == sc.temporaryName
        assgnArgs == Append(sc.assgnArgs, arg)
        cond == MK_Send(sendLoc, MK_Local(sendLoc, tempRecv), s.fun, sc.readArgs, s.flags) IN
    Then(freshDesugarName(dctx, s.fun, sc.st), LAMBDA f :
    LET tempResult == f.name
        stats == Append(sc.statementBody, MK_Assign(sendLoc, tempResult, cond))
        elsep == MK_Send(sendLoc, MK_Local(sendLoc, tempRecv), addEq(s.fun), assgnArgs,
                         s.flags)
        body == MK_Local(sendLoc, tempResult)
        iff == MK_If(sendLoc, MK_Local(sendLoc, tempResult), body, elsep) IN
       R(MK_InsSeq(loc, stats, iff), f.st)))

\* a faulty `s op= rhs` that reads through the receiver expression again
OpAsgnSend_rereadsReceiver(dctx, loc, s, op, rhs, st) ==
    LET sendLoc == s.loc IN
    Then(copyArgsForOpAsgn(dctx, s, st), LAMBDA sc :
    LET tempRecv == sc.temporaryName
        prevValue == MK_Send(sendLoc, s.recv, s.fun, sc.readArgs, s.flags)
        newValue == MK_Send1(sendLoc, prevValue, op, rhs)
        assgnArgs == Append(sc.assgnArgs, newValue)
        res == MK_Send(sendLoc, MK_Local(sendLoc, tempRecv), addEq(s.fun), assgnArgs,
                       s.flags) IN
       R(MK_InsSeq(loc, sc.statementBody, res), sc.st))

\* lines 725-735 and 766-775: `s op= rhs` for a send s
OpAsgnSend(dctx, loc, s, op, rhs, st) ==
    LET sendLoc == s.loc IN
    Then(copyArgsForOpAsgn(dctx, s, st), LAMBDA sc :
    LET tempRecv == sc.temporaryName
        prevValue == MK_Send(sendLoc, MK_Local(sendLoc, tempRecv), s.fun, sc.readArgs,
                             s.flags)
        newValue == MK_Send1(sendLoc, prevValue, op, rhs)
        assgnArgs == Append(sc.assgnArgs, newValue)
        res == MK_Send(sendLoc, MK_Local(sendLoc, tempRecv), addEq(s.fun), assgnArgs,
                       s.flags) IN
       R(MK_InsSeq(loc, sc.statementBody, res), sc.st))

\* the lhs is the InsSeq of a safe navigation: { t = x; if t == nil then nil else t.y }
isCSendShape(recv) ==
    /\ recv.tag = "InsSeq"
    /\ recv.expr.tag = "If"
    /\ recv.expr.elsep.tag = "Send"
\* ifExpr->elsep.swap(wrapped); result.swap(recv)
withElse(recv, wrapped) == [recv EXCEPT !.expr.elsep = wrapped]

node2TreeImpl_AndAsgn(dctx, andAsgn, st) ==
    LET loc == andAsgn.loc IN
    Then(node2TreeImpl(dctx, andAsgn.left, st), LAMBDA recv :
    Then(node2TreeImpl(dctx, andAsgn.right, recv.st), LAMBDA arg :
       IF arg.st.exc THEN R(NoTree, arg.st)
       ELSE IF isa_tree(recv.t, "Send") THEN AndAsgnSend(dctx, loc, recv.t, arg.t, arg.st)
       ELSE IF isReference(recv.t)
            THEN R(MK_If(loc, MK_cpRef(recv.t), MK_AssignE(loc, recv.t, arg.t),
                         MK_cpRef(recv.t)), arg.st)
       ELSE IF isa_tree(recv.t, "UnresolvedConstantLit")
            THEN R(EmptyTree, beginError(arg.st, andAsgn.loc, "NoConstantReassignment"))
       ELSE IF isa_tree(recv.t, "InsSeq")
            THEN IF ~isCSendShape(recv.t) THEN R(NoTree, raise(arg.st))
                 ELSE Then(AndAsgnSend(dctx, loc, recv.t.expr.elsep, arg.t, arg.st), LAMBDA w :
                         R(withElse(recv.t, w.t), w.st))
       ELSE R(NoTree, raise(arg.st))))

\* a faulty `X ||= arg` that asks for a temporary before it reports
node2TreeImpl_OrAsgn_mintsForConstant(dctx, orAsgn, st) ==
    LET loc == orAsgn.loc IN
    Then(node2TreeImpl(dctx, orAsgn.left, st), LAMBDA recv :
    Then(node2TreeImpl(dctx, orAsgn.right, recv.st), LAMBDA arg :
       IF arg.st.exc THEN R(NoTree, arg.st)
       ELSE IF isa_tree(recv.t, "Send") THEN OrAsgnSend(dctx, loc, recv.t, arg.t, arg.st)
       ELSE IF isReference(recv.t)
            THEN R(MK_If(loc, MK_cpRef(recv.t), MK_cpRef(recv.t),
                         MK_AssignE(loc, recv.t, arg.t)), arg.st)
       ELSE IF isa_tree(recv.t, "UnresolvedConstantLit")
            THEN Then(freshDesugarName(dctx, recv.t.cnst, arg.st), LAMBDA f :
                    R(EmptyTree, beginError(f.st, orAsgn.loc, "NoConstantReassignment")))
       ELSE IF isa_tree(recv.t, "InsSeq")
            THEN IF ~isCSendShape(recv.t) THEN R(NoTree, raise(arg.st))
                 ELSE Then(OrAsgnSend(dctx, loc, recv.t.expr.elsep, arg.t, arg.st), LAMBDA w :
                         R(withElse(recv.t, w.t), w.st))
       ELSE R(NoTree, raise(arg.st))))

\* lines 659-720: `lhs ||= arg`
node2TreeImpl_OrAsgn(dctx, orAsgn, st) ==
    LET loc == orAsgn.loc IN
    Then(node2TreeImpl(dctx, orAsgn.left, st), LAMBDA recv :
    Then(node2TreeImpl(dctx, orAsgn.right, recv.st), LAMBDA arg :
       IF arg.st.exc THEN R(NoTree, arg.st)
       ELSE IF isa_tree(recv.t, "Send") THEN OrAsgnSend(dctx, loc, recv.t, arg.t, arg.st)
       ELSE IF isReference(recv.t)
            THEN R(MK_If(loc, MK_cpRef(recv.t), MK_cpRef(recv.t),
                         MK_AssignE(loc, recv.t, arg.t)), arg.st)
       ELSE IF isa_tree(recv.t, "UnresolvedConstantLit")
            THEN R(EmptyTree, beginError(arg.st, orAsgn.loc, "NoConstantReassignment"))
       ELSE IF isa_tree(recv.t, "InsSeq")
            THEN IF ~isCSendShape(recv.t) THEN R(NoTree, raise(arg.st))
                 ELSE Then(OrAsgnSend(dctx, loc, recv.t.expr.elsep, arg.t, arg.st), LAMBDA w :
                         R(withElse(recv.t, w.t), w.st))
       ELSE R(NoTree, raise(arg.st))))

node2TreeImpl_OpAsgn(dctx, opAsgn, st) ==
    LET loc == opAsgn.loc IN
    Then(node2TreeImpl(dctx, opAsgn.left, st), LAMBDA recv :
    Then(node2TreeImpl(dctx, opAsgn.right, recv.st), LAMBDA rhs :
       IF rhs.st.exc THEN R(NoTree, rhs.st)
       ELSE IF isa_tree(recv.t, "Send")
            THEN OpAsgnSend(dctx, loc, recv.t, opAsgn.op, rhs.t, rhs.st)
       ELSE IF isReference(recv.t)
            THEN R(MK_AssignE(loc, MK_cpRef(recv.t),
                              MK_Send1(loc, recv.t, opAsgn.op, rhs.t)), rhs.st)
       ELSE IF isa_tree(recv.t, "UnresolvedConstantLit")
            THEN R(EmptyTree, beginError(rhs.st, opAsgn.loc, "NoConstantReassignment"))
       ELSE IF isa_tree(recv.t, "InsSeq")
            THEN IF ~isCSendShape(recv.t) THEN R(NoTree, raise(rhs.st))
                 ELSE Then(OpAsgnSend(dctx, loc, recv.t.expr.elsep, opAsgn.op, rhs.t,
                                      rhs.st), LAMBDA w :
                         R(withElse(recv.t, w.t), w.st))
       ELSE R(NoTree, raise(rhs.st))))

node2TreeImpl_CSend(dctx, csend, st) ==
    LET loc == csend.loc IN
    Then(freshDesugarName(dctx, Name("assignTemp"), st), LAMBDA f :
    LET tempRecv == f.name
        recvLoc == csend.receiver.loc
        zeroLengthLoc == copyWithZeroLength(loc)
        zeroLengthRecvLoc == copyWithZeroLength(recvLoc) IN
    Then(node2TreeImpl(dctx, csend.receiver, f.st), LAMBDA r :
    LET assgn == MK_Assign(zeroLengthRecvLoc, tempRecv, r.t)
        cond == MK_Send1(zeroLengthLoc, MK_Local(zeroLengthRecvLoc, tempRecv), Name("=="),
                         MK_Nil(zeroLengthLoc))
        sendNode == PSend(loc, PVar("LVar", recvLoc, tempRecv), csend.method, csend.args) IN
    Then(node2TreeImpl(dctx, sendNode, r.st), LAMBDA send :
    LET iff == MK_If(zeroLengthLoc, cond, MK_Nil(zeroLengthLoc), send.t) IN
       R(MK_InsSeq1(zeroLengthLoc, assgn, iff), send.st))))

node2TreeImpl_ConstLhs(dctx, constLhs, st) ==
    Then(node2TreeImpl(dctx, constLhs.scope, st), LAMBDA scope :
       R(MK_UnresolvedConstant(constLhs.loc, scope.t, constLhs.name), scope.st))

node2TreeImpl_Module(dctx, module, st) ==
    Then(scopeNodeToBody(dctx, module.body, st), LAMBDA body :
    Then(node2TreeImpl(dctx, module.name, body.st), LAMBDA name :
       R(MK_Module(module.loc, module.declLoc, name.t, <<>>, body.ts), name.st)))

node2TreeImpl_Class(dctx, claz, st) ==
    Then(scopeNodeToBody(dctx, claz.body, st), LAMBDA body :
    Then(IF claz.superclass = NoNode
         THEN R(MK_Constant(claz.loc, "todo"), body.st)
         ELSE node2TreeImpl(dctx, claz.superclass, body.st), LAMBDA super :
    Then(node2TreeImpl(dctx, claz.name, super.st), LAMBDA name :
       R(MK_Class(claz.loc, claz.declLoc, name.t, <<super.t>>, body.ts), name.st))))

node2TreeImpl_SClass(dctx, sclass, st) ==
    IF sclass.expr.k # "Self"
    THEN R(EmptyTree, beginError(st, sclass.expr.loc, "InvalidSingletonDef"))
    ELSE Then(scopeNodeToBody(dctx, sclass.body, st), LAMBDA body :
            R(MK_Class(sclass.loc, sclass.declLoc,
                       UnresolvedIdent(sclass.expr.loc, "Class", Name("singleton")),
                       <<>>, body.ts), body.st))

\* Arg, Restarg, Kwrestarg, Kwarg, Blockarg, Shadowarg
node2TreeImpl_Arg(dctx, arg, st) ==
    LET loc == arg.loc IN
    CASE arg.k = "Arg" -> R(MK_Local(loc, arg.name), st)
      [] arg.k = "Restarg" -> R(MK_RestArg(loc, MK_Local(arg.nameLoc, arg.name)), st)
      [] arg.k = "Kwrestarg" ->
           R(MK_RestArg(loc, MK_KeywordArg(loc, MK_Local(loc, arg.name))), st)
      [] arg.k = "Kwarg" -> R(MK_KeywordArg(loc, MK_Local(loc, arg.name)), st)
      [] arg.k = "Blockarg" -> R(MK_BlockArg(loc, MK_Local(loc, arg.name)), st)
      [] arg.k = "Shadowarg" -> R(MK_ShadowArg(loc, MK_Local(loc, arg.name)), st)

\* Kwoptarg, Optarg
node2TreeImpl_Optarg(dctx, arg, st) ==
    LET loc == arg.loc IN
    Then(node2TreeImpl(dctx, arg.default_, st), LAMBDA d :
       IF arg.k = "Kwoptarg"
       THEN R(MK_OptionalArg(loc, MK_KeywordArg(loc, MK_Local(arg.nameLoc, arg.name)),
                             d.t), d.st)
       ELSE R(MK_OptionalArg(loc, MK_Local(arg.nameLoc, arg.name), d.t), d.st))

node2TreeImpl_DefMethod(dctx, method, st) ==
    buildMethod(dctx, method.loc, method.declLoc, method.name, method.args, method.body,
                FALSE, st)

node2TreeImpl_DefS(dctx, method, st) ==
    IF method.singleton.k # "Self"
    THEN R(EmptyTree, beginError(st, method.singleton.loc, "InvalidSingletonDef"))
    ELSE buildMethod(dctx, method.loc, method.declLoc, method.name, method.args,
                     method.body, TRUE, st)

node2TreeImpl_Block(dctx, block, st) ==
    LET loc == block.loc IN
    Then(node2TreeImpl(dctx, [block.send EXCEPT !.loc = loc], st), LAMBDA recv :
       IF recv.st.exc THEN R(NoTree, recv.st)
       ELSE IF ~isa_tree(recv.t, "Send") /\ ~isa_tree(recv.t, "InsSeq")
            THEN R(EmptyTree, beginError(recv.st, block.loc, "UnsupportedNode"))
       ELSE IF ~isa_tree(recv.t, "Send") /\ ~isCSendShape(recv.t)
            THEN R(NoTree, raise(recv.st))
       ELSE Then(desugarArgs(dctx, loc, block.args, recv.st), LAMBDA a :
            Then(desugarBody(dctx, loc, block.body, a.destructures, a.st), LAMBDA b :
            LET blk == MK_Block(loc, b.t, a.args) IN
               R(IF isa_tree(recv.t, "Send") THEN [recv.t EXCEPT !.block = blk]
                 ELSE [recv.t EXCEPT !.expr.elsep.block = blk], b.st))))

\* IVar, GVar, CVar and IVarLhs, GVarLhs, CVarLhs
node2TreeImpl_Var(dctx, var, st) ==
    LET kind == CASE var.k \in {"IVar", "IVarLhs"} -> "Instance"
                  [] var.k \in {"GVar", "GVarLhs"} -> "Global"
                  [] var.k \in {"CVar", "CVarLhs"} -> "Class"
    IN R(UnresolvedIdent(var.loc, kind, var.name), st)

node2TreeImpl_Assign(dctx, asgn, st) ==
    Then(node2TreeImpl(dctx, asgn.lhs, st), LAMBDA lhs :
    Then(node2TreeImpl(dctx, asgn.rhs, lhs.st), LAMBDA rhs :
       R(MK_AssignE(asgn.loc, lhs.t, rhs.t), rhs.st)))

node2TreeImpl_If(dctx, if_, st) ==
    Then(node2TreeImpl(dctx, if_.condition, st), LAMBDA cond :
    Then(node2TreeImpl(dctx, if_.then_, cond.st), LAMBDA thenp :
    Then(node2TreeImpl(dctx, if_.else_, thenp.st), LAMBDA elsep :
       R(MK_If(if_.loc, cond.t, thenp.t, elsep.t), elsep.st))))

node2TreeImpl_Masgn(dctx, masgn, st) ==
    Then(node2TreeImpl(dctx, masgn.rhs, st), LAMBDA rhs :
       IF masgn.lhs.k # "Mlhs" THEN R(NoTree, raise(rhs.st))
       ELSE desugarMlhs(dctx, masgn.loc, masgn.lhs, rhs.t, rhs.st))

RECURSIVE CasePatterns(_, _, _, _, _, _, _)
\* lines 1611-1627, the loop over when->patterns; cond is NoTree for nullptr
CasePatterns(dctx, patterns, i, cond, temp, cloc, st) ==
    IF i > Len(patterns) THEN R(cond, st)
    ELSE Then(node2TreeImpl(dctx, patterns[i], st), LAMBDA ctree :
         LET test == IF NameExists(temp)
                     THEN MK_Send1(ctree.t.loc, ctree.t, Name("==="), MK_Local(cloc, temp))
                     ELSE ctree.t
             cond1 == IF cond = NoTree THEN test
                      ELSE MK_If(test.loc, test, MK_True(test.loc), cond) IN
            CasePatterns(dctx, patterns, i + 1, cond1, temp, cloc, ctree.st))

RECURSIVE CaseWhens(_, _, _, _, _, _, _)
\* lines 1607-1630, the loop over case_->whens from the last to the first
CaseWhens(dctx, whens, i, res, temp, cloc, st) ==
    IF i < 1 THEN R(res, st)
    ELSE LET when == whens[i] IN
         Then(CasePatterns(dctx, when.patterns, 1, NoTree, temp, cloc, st), LAMBDA cond :
         Then(node2TreeImpl(dctx, when.body, cond.st), LAMBDA body :
            CaseWhens(dctx, whens, i - 1, MK_If(when.loc, cond.t, body.t, res), temp, cloc,
                      body.st)))

\* lines 1595-1636
node2TreeImpl_Case(dctx, case_, st) ==
    LET loc == case_.loc
        hasCondition == case_.condition # NoNode
        cloc == IF hasCondition THEN case_.condition.loc ELSE NoLoc IN
    Then(IF hasCondition THEN freshDesugarName(dctx, Name("assignTemp"), st)
         ELSE [name |-> noName, st |-> st], LAMBDA f :
    LET temp == f.name IN
    Then(IF hasCondition THEN node2TreeImpl(dctx, case_.condition, f.st)
         ELSE R(NoTree, f.st), LAMBDA c :
    Then(node2TreeImpl(dctx, case_.else_, c.st), LAMBDA else_ :
    Then(CaseWhens(dctx, case_.whens, Len(case_.whens), else_.t, temp, cloc, else_.st),
         LAMBDA res :
       IF hasCondition
       THEN R(MK_InsSeq1(loc, MK_Assign(cloc, temp, c.t), res.t), res.st)
       ELSE R(res.t, res.st)))))

\* a faulty Resbody that mints a temporary for every clause, a local bound
\* by the source included
Resbody_var_alwaysFresh(dctx, varExpr, st) ==
    Then(freshDesugarName(dctx, Name("rescueTemp"), st), LAMBDA f :
       [var |-> f.name, varExpr |-> varExpr, st |-> f.st])

\* lines 1532-1545: the name the clause binds; a local of the source is
\* that name and leaves varExpr null (NoTree), anything else gets a rescueTemp
Resbody_var(dctx, varExpr, st) ==
    IF isa_tree(varExpr, "UnresolvedIdent") /\ varExpr.kind = "Local"
    THEN [var |-> varExpr.name, varExpr |-> NoTree, st |-> st]
    ELSE Then(freshDesugarName(dctx, Name("rescueTemp"), st), LAMBDA f :
            [var |-> f.name, varExpr |-> varExpr, st |-> f.st])

\* lines 1510-1557
node2TreeImpl_Resbody(dctx, resbody, st) ==
    LET loc == resbody.loc IN
    Then(node2TreeImpl(dctx, resbody.exception, st), LAMBDA ex :
    LET exceptionsExpr == ex.t
        isSend == isa_tree(exceptionsExpr, "Send")
        st1 == IF isa_tree(exceptionsExpr, "EmptyTree") \/ isa_tree(exceptionsExpr, "Array")
               THEN ex.st
               ELSE IF isSend
               THEN ENFORCE(exceptionsExpr.fun \in {Name("splat"), Name("to_a"), Name("concat")},
                            ex.st)
               ELSE raise(ex.st)
        exceptions == IF isa_tree(exceptionsExpr, "EmptyTree") THEN <<>>
                      ELSE IF isa_tree(exceptionsExpr, "Array") THEN exceptionsExpr.elems
                      ELSE <<exceptionsExpr>> IN
    Then([st |-> st1], LAMBDA e :
    Then(node2TreeImpl(dctx, resbody.var, e.st), LAMBDA varExpr0 :
    Then(node2TreeImpl(dctx, resbody.body, varExpr0.st), LAMBDA body0 :
    Then(Resbody_var(dctx, varExpr0.t, body0.st), LAMBDA v :
    LET var == v.var
        varExpr == v.varExpr
        varLoc == IF isa_tree(varExpr, "EmptyTree") THEN loc ELSE varExpr0.t.loc
        body == IF ~isa_tree(varExpr, "EmptyTree") /\ varExpr # NoTree
                THEN MK_InsSeq1(varLoc, MK_AssignE(varLoc, varExpr, MK_Local(varLoc, var)),
                                body0.t)
                ELSE body0.t IN
       R(MakeRescueCase(loc, exceptions, MK_Local(varLoc, var), body), v.st))))))

RECURSIVE RescueCases(_, _, _, _, _)
\* lines 1497-1503, the loop over rescue->rescue
RescueCases(dctx, nodes, i, cases, st) ==
    IF i > Len(nodes) THEN [ts |-> cases, st |-> st]
    ELSE Then(node2TreeImpl(dctx, nodes[i], st), LAMBDA rescueCaseExpr :
         Then([st |-> ENFORCE(isa_tree(rescueCaseExpr.t, "RescueCase"), rescueCaseExpr.st)],
              LAMBDA e :
            RescueCases(dctx, nodes, i + 1, Append(cases, rescueCaseExpr.t), e.st)))

\* lines 1494-1509; the clauses, then the body, then the else
node2TreeImpl_Rescue(dctx, rescue, st) ==
    Then(RescueCases(dctx, rescue.rescue, 1, <<>>, st), LAMBDA cases :
    Then(node2TreeImpl(dctx, rescue.body, cases.st), LAMBDA body :
    Then(node2TreeImpl(dctx, rescue.else_, body.st), LAMBDA else_ :
       R(MakeRescue(rescue.loc, body.t, cases.ts, else_.t, EmptyTree), else_.st))))

\* MK::Return, MK::Break or MK::Next, by the tag of the node it builds
MK_Exit(tag, loc, expr) == [tag |-> tag, loc |-> loc, expr |-> expr]

RECURSIVE ExitElems(_, _, _, _, _)
\* lines 1370-1378, 1402-1410 and 1434-1442: the loop over ret->exprs of a
\* return, break or next with more than one operand
ExitElems(dctx, ret, i, elems, st) ==
    IF i > Len(ret.exprs) THEN [ts |-> elems, st |-> st]
    ELSE IF ret.exprs[i].k = "BlockPass"
    THEN ExitElems(dctx, ret, i + 1, elems, beginError(st, ret.loc, "UnsupportedNode"))
    ELSE Then(node2TreeImpl(dctx, ret.exprs[i], st), LAMBDA e :
            ExitElems(dctx, ret, i + 1, Append(elems, e.t), e.st))

\* lines 1366-1397 (Return), 1398-1429 (Break) and 1430-1461 (Next): the
\* three arms differ in the node they build, named by tag; for a single
\* block-pass operand each of the three builds MK::Break
node2TreeImpl_Exit(dctx, ret, tag, st) ==
    LET loc == ret.loc IN
    IF Len(ret.exprs) > 1
    THEN Then(ExitElems(dctx, ret, 1, <<>>, st), LAMBDA elems :
            R(MK_Exit(tag, loc, MK_Array(loc, elems.ts)), elems.st))
    ELSE IF Len(ret.exprs) = 1
    THEN IF ret.exprs[1].k = "BlockPass"
         THEN R(MK_Break(loc, EmptyTree), beginError(st, ret.loc, "UnsupportedNode"))
         ELSE Then(node2TreeImpl(dctx, ret.exprs[1], st), LAMBDA e :
                 R(MK_Exit(tag, loc, e.t), e.st))
    ELSE R(MK_Exit(tag, loc, EmptyTree), st)

\* a faulty Undef arm that reports the node as unsupported
node2TreeImpl_Undef_unsupported(dctx, undef, st) ==
    unsupportedNode(dctx, undef, st)

\* lines 1684-1696
node2TreeImpl_Undef(dctx, undef, st) ==
    LET loc == undef.loc
        st1 == beginError(st, undef.loc, "UndefUsage") IN
    Then(desugarNodes(dctx, undef.exprs, st1), LAMBDA args :
       R(MK_Send(loc, MK_Constant(loc, "Kernel"), Name("undef"), args.ts, {}), args.st))

\* absl::StrReplaceAll(s, {{c, ""}}) on a string held as its characters
StrRemove(s, c) == SelectSeq(s, LAMBDA x : x # c)
DecimalDigits == <<"0", "1", "2", "3", "4", "5", "6", "7", "8", "9">>
IsDigit(c) == \E d \in 1..10 : DecimalDigits[d] = c
DigitValue(c) == (CHOOSE d \in 1..10 : DecimalDigits[d] = c) - 1
\* an int64_t is held as a sign and a magnitude, the magnitude as its decimal
\* digits, most significant first and without leading zeros
RECURSIVE StripZeros(_)
StripZeros(ds) == IF Len(ds) > 1 /\ Head(ds) = 0 THEN StripZeros(Tail(ds)) ELSE ds
\* the magnitudes of numeric_limits<int64_t>::max() and ::min()
Int64MaxMagnitude == <<9, 2, 2, 3, 3, 7, 2, 0, 3, 6, 8, 5, 4, 7, 7, 5, 8, 0, 7>>
Int64MinMagnitude == <<9, 2, 2, 3, 3, 7, 2, 0, 3, 6, 8, 5, 4, 7, 7, 5, 8, 0, 8>>
RECURSIVE LexLeq(_, _)
LexLeq(a, b) ==
    IF a = <<>> THEN TRUE
    ELSE IF Head(a) # Head(b) THEN Head(a) < Head(b)
    ELSE LexLeq(Tail(a), Tail(b))
MagnitudeLeq(a, b) == Len(a) < Len(b) \/ (Len(a) = Len(b) /\ LexLeq(a, b))
RECURSIVE MagnitudeInc(_)
\* the magnitude plus one
MagnitudeInc(ds) ==
    IF ds = <<>> THEN <<1>>
    ELSE IF ds[Len(ds)] < 9 THEN [ds EXCEPT ![Len(ds)] = @ + 1]
    ELSE Append(MagnitudeInc(SubSeq(ds, 1, Len(ds) - 1)), 0)
RECURSIVE MagnitudeDec(_)
\* the magnitude minus one, for a magnitude above 0
MagnitudeDec(ds) ==
    IF ds[Len(ds)] > 0 THEN StripZeros([ds EXCEPT ![Len(ds)] = @ - 1])
    ELSE StripZeros(Append(MagnitudeDec(SubSeq(ds, 1, Len(ds) - 1)), 9))
Int64(neg, mag) == [neg |-> neg /\ mag # <<0>>, mag |-> mag]
\* ~val on an int64_t: -val - 1
Complement(v) ==
    IF v.neg THEN Int64(FALSE, MagnitudeDec(v.mag)) ELSE Int64(TRUE, MagnitudeInc(v.mag))
\* absl::SimpleAtoi(text, &val) for an int64_t: an optional sign and
\* decimal digits; it fails on anything else and on a value out of range
SimpleAtoi(text) ==
    LET signed == text # <<>> /\ Head(text) \in {"-", "+"}
        neg == signed /\ Head(text) = "-"
        body == IF signed THEN Tail(text) ELSE text
        wellFormed == body # <<>> /\ \A i \in 1..Len(body) : IsDigit(body[i])
        mag == StripZeros([i \in 1..Len(body) |-> DigitValue(body[i])])
        fits == MagnitudeLeq(mag, IF neg THEN Int64MinMagnitude ELSE Int64MaxMagnitude)
    IN IF wellFormed /\ fits THEN [ok |-> TRUE, val |-> Int64(neg, mag)]
       ELSE [ok |-> FALSE, val |-> Int64(FALSE, <<0>>)]

\* lines 1148-1168
node2TreeImpl_Integer(dctx, integer, st) ==
    LET loc == integer.loc
        hasTilde == \E i \in 1..Len(integer.val) : integer.val[i] = "~"
        withoutTilde == IF ~hasTilde THEN integer.val ELSE StrRemove(integer.val, "~")
        withoutUnderscores == StrRemove(withoutTilde, "_")
        parsed == SimpleAtoi(withoutUnderscores)
        val == IF parsed.ok THEN parsed.val ELSE Int64(FALSE, <<0>>)
        st1 == IF parsed.ok THEN st ELSE beginError(st, loc, "IntegerOutOfRange")
    IN R(MK_Int(loc, IF hasTilde THEN Complement(val) ELSE val), st1)

\* lines 1558-1571
node2TreeImpl_Ensure(dctx, ensure, st) ==
    Then(node2TreeImpl(dctx, ensure.body, st), LAMBDA bodyExpr :
    Then(node2TreeImpl(dctx, ensure.ensure, bodyExpr.st), LAMBDA ensureExpr :
       IF isa_tree(bodyExpr.t, "Rescue")
       THEN R([bodyExpr.t EXCEPT !.ensure = ensureExpr.t], ensureExpr.st)
       ELSE R(MakeRescue(ensure.loc, bodyExpr.t, <<>>, EmptyTree, ensureExpr.t),
              ensureExpr.st)))

\* lines 1103-1112: every variable of `for a, b in ..` is a local
allLVarLhs(exprs) == \A i \in 1..Len(exprs) : exprs[i].k = "LVarLhs"

\* lines 1099-1147
node2TreeImpl_For(dctx, for_, st) ==
    LET loc == for_.loc
        isMlhs == for_.vars.k = "Mlhs"
        canProvideNiceDesugar ==
            IF isMlhs THEN allLVarLhs(for_.vars.exprs) ELSE for_.vars.k = "LVarLhs"
        mlhsNode == IF isMlhs \/ canProvideNiceDesugar THEN for_.vars
                    ELSE PMlhs(loc, <<for_.vars>>) IN
    Then(IF canProvideNiceDesugar
         THEN desugarNodes(dctx, IF isMlhs THEN for_.vars.exprs ELSE <<for_.vars>>, st)
         ELSE [ts |-> <<>>, st |-> st], LAMBDA args :
    Then(node2TreeImpl(dctx, for_.body, args.st), LAMBDA body :
       IF canProvideNiceDesugar
       THEN Then(node2TreeImpl(dctx, for_.expr, body.st), LAMBDA e :
               R(MK_SendB(loc, e.t, Name("each"), <<>>, {}, MK_Block(loc, body.t, args.ts)),
                 e.st))
       ELSE Then(freshDesugarName(dctx, Name("forTemp"), body.st), LAMBDA f :
            Then(node2TreeImpl(dctx, PMasgn(loc, mlhsNode, PVar("LVar", loc, f.name)), f.st),
                 LAMBDA m :
            Then(node2TreeImpl(dctx, for_.expr, m.st), LAMBDA e :
               R(MK_SendB(loc, e.t, Name("each"), <<>>, {},
                          MK_Block(loc, MK_InsSeq1(loc, m.t, body.t), args.ts)), e.st))))))

node2TreeImpl_Splat(dctx, splat, st) ==
    Then(node2TreeImpl(dctx, splat.var, st), LAMBDA var :
       R(MK_Splat(splat.loc, var.t), var.st))

RECURSIVE ArrayLoop(_, _, _, _, _)
\* the loop of the Array arm over array->elts; acc holds elems and lastMerge
ArrayLoop(dctx, array, i, acc, st) ==
    IF i > Len(array.elts) THEN [acc |-> acc, st |-> st]
    ELSE LET loc == array.loc
             stat == array.elts[i]
         IN IF stat.k = "Splat"
            THEN Then(node2TreeImpl(dctx, stat.var, st), LAMBDA v :
                 LET var == MK_Send0(loc, v.t, Name("to_a"))
                     current == MK_Array(loc, acc.elems)
                     merged == IF acc.elems = <<>> THEN acc.lastMerge
                               ELSE IF acc.lastMerge # NoTree
                                    THEN MK_Send1(loc, acc.lastMerge, Name("concat"), current)
                                    ELSE current
                     lastMerge == IF merged # NoTree
                                  THEN MK_Send1(loc, merged, Name("concat"), var)
                                  ELSE var IN
                    ArrayLoop(dctx, array, i + 1,
                              [elems |-> <<>>, lastMerge |-> lastMerge], v.st))
            ELSE Then(node2TreeImpl(dctx, stat, st), LAMBDA e :
                    ArrayLoop(dctx, array, i + 1,
                              [acc EXCEPT !.elems = Append(@, e.t)], e.st))

node2TreeImpl_Array(dctx, array, st) ==
    LET loc == array.loc IN
    Then(ArrayLoop(dctx, array, 1, [elems |-> <<>>, lastMerge |-> NoTree], st), LAMBDA l :
    LET elems == l.acc.elems
        lastMerge == l.acc.lastMerge IN
       IF l.st.exc THEN R(NoTree, l.st)
       ELSE IF elems = <<>>
            THEN R(IF lastMerge # NoTree THEN lastMerge ELSE MK_Array(loc, elems), l.st)
       ELSE R(IF lastMerge # NoTree
              THEN MK_Send1(loc, lastMerge, Name("concat"), MK_Array(loc, elems))
              ELSE MK_Array(loc, elems), l.st))

-----------------------------------------------------------------------------
(* node2TreeImpl: the typecase and the catch clause around it.             *)

\* the typecase of lines 420-1723, on the dynamic kind of the node
typecase(dctx, what, st) ==
    LET loc == what.loc IN
    CASE what.k = "Send" -> node2TreeImpl_Send(dctx, what, st)
      [] what.k = "Const" -> node2TreeImpl_Const(dctx, what, st)
      [] what.k = "String" -> R(MK_String(loc, what.val), st)
      [] what.k = "Symbol" -> R(MK_Symbol(loc, what.val), st)
      [] what.k = "LVar" -> R(MK_Local(loc, what.name), st)
      [] what.k \in {"Begin", "Kwbegin"} -> node2TreeImpl_Begin(dctx, what, st)
      [] what.k = "And" -> node2TreeImpl_And(dctx, what, st)
      [] what.k = "Or" -> node2TreeImpl_Or(dctx, what, st)
      [] what.k = "AndAsgn" -> node2TreeImpl_AndAsgn(dctx, what, st)
      [] what.k = "OrAsgn" -> node2TreeImpl_OrAsgn(dctx, what, st)
      [] what.k = "OpAsgn" -> node2TreeImpl_OpAsgn(dctx, what, st)
      [] what.k = "CSend" -> node2TreeImpl_CSend(dctx, what, st)
      [] what.k = "Self" -> R(MK_Self(loc), st)
      [] what.k = "Case" -> node2TreeImpl_Case(dctx, what, st)
      [] what.k = "Rescue" -> node2TreeImpl_Rescue(dctx, what, st)
      [] what.k = "Resbody" -> node2TreeImpl_Resbody(dctx, what, st)
      [] what.k \in {"Return", "Break", "Next"} ->
            node2TreeImpl_Exit(dctx, what, what.k, st)
      [] what.k = "Ensure" -> node2TreeImpl_Ensure(dctx, what, st)
      [] what.k = "For" -> node2TreeImpl_For(dctx, what, st)
      [] what.k = "Integer" -> node2TreeImpl_Integer(dctx, what, st)
      [] what.k = "DString" -> desugarDString(dctx, loc, what.nodes, st)
      [] what.k = "DSymbol" -> node2TreeImpl_DSymbol(dctx, what, st)
      [] what.k = "ConstLhs" -> node2TreeImpl_ConstLhs(dctx, what, st)
      [] what.k = "Cbase" -> R(MK_Constant(loc, "root"), st)
      [] what.k = "Module" -> node2TreeImpl_Module(dctx, what, st)
      [] what.k = "Class" -> node2TreeImpl_Class(dctx, what, st)
      [] what.k \in {"Arg", "Restarg", "Kwrestarg", "Kwarg", "Blockarg", "Shadowarg"} ->
           node2TreeImpl_Arg(dctx, what, st)
      [] what.k \in {"Kwoptarg", "Optarg"} -> node2TreeImpl_Optarg(dctx, what, st)
      [] what.k = "DefMethod" -> node2TreeImpl_DefMethod(dctx, what, st)
      [] what.k = "DefS" -> node2TreeImpl_DefS(dctx, what, st)
      [] what.k = "SClass" -> node2TreeImpl_SClass(dctx, what, st)
      [] what.k = "Block" -> node2TreeImpl_Block(dctx, what, st)
      [] what.k = "Nil" -> R(MK_Nil(loc), st)
      [] what.k \in {"IVar", "GVar", "CVar", "IVarLhs", "GVarLhs", "CVarLhs"} ->
           node2TreeImpl_Var(dctx, what, st)
      [] what.k = "LVarLhs" -> R(MK_Local(loc, what.name), st)
      [] what.k = "Assign" -> node2TreeImpl_Assign(dctx, what, st)
      [] what.k = "Array" -> node2TreeImpl_Array(dctx, what, st)
      [] what.k = "If" -> node2TreeImpl_If(dctx, what, st)
      [] what.k = "Masgn" -> node2TreeImpl_Masgn(dctx, what, st)
      [] what.k = "True" -> R(MK_True(loc), st)
      [] what.k = "False" -> R(MK_False(loc), st)
      [] what.k = "Splat" -> node2TreeImpl_Splat(dctx, what, st)
      [] what.k \in {"Preexe", "Postexe"} -> unsupportedNode(dctx, what, st)
      [] what.k = "Undef" -> node2TreeImpl_Undef(dctx, what, st)
      [] what.k \in {"Backref", "EFlipflop", "IFlipflop", "MatchCurLine", "Redo",
                     "EncodingLiteral"} -> unsupportedNode(dctx, what, st)
      \* "Send should have already handled the BlockPass"
      [] what.k = "BlockPass" -> R(NoTree, raise(st))
      \* "Unimplemented Parser Node"
      [] OTHER -> R(NoTree, raise(st))

\* a faulty catch clause that reports without remembering that it did
Catch_forgetsFlag(what, st) ==
    LET handling == [st EXCEPT !.exc = FALSE, !.caught = Append(@, what.loc)]
        reported == IF ~handling.rep
                    THEN beginError(handling, what.loc, "InternalError")
                    ELSE handling
    IN raise(reported)

\* lines 1725-1734: the catch clause of the frame desugaring `what`; the
\* handler runs with the exception caught and ends in `throw;`
Catch(what, st) ==
    LET handling == [st EXCEPT !.exc = FALSE, !.caught = Append(@, what.loc)]
        reported == IF ~handling.rep
                    THEN beginError([handling EXCEPT !.rep = TRUE], what.loc,
                                    "InternalError")
                    ELSE handling
    IN raise(reported)

node2TreeImpl(dctx, what, st) ==
    IF st.exc THEN R(NoTree, st)
    ELSE IF what = NoNode THEN R(EmptyTree, st)
    ELSE LET r == typecase(dctx, what, st)
         IN IF r.st.exc THEN R(NoTree, Catch(what, r.st)) ELSE r

\* a faulty liftTopLevel that forgets the final expression of the InsSeq
liftTopLevel_dropsExpr(dctx, loc, what) ==
    LET rhs == IF isa_tree(what, "InsSeq") THEN what.stats ELSE <<what>>
    IN ClassDef(loc, loc, "root", EmptyTree, <<>>, rhs, "Class")

liftTopLevel(dctx, loc, what) ==
    LET rhs == IF isa_tree(what, "InsSeq") THEN Append(what.stats, what.expr)
               ELSE <<what>>
    IN ClassDef(loc, loc, "root", EmptyTree, <<>>, rhs, "Class")

\* Verifier::run checks the tree in debug builds and returns it as it is
Verifier_run(t) == t

\* a faulty node2Tree whose catch clause leaves locReported as it is
node2Tree_keepsFlag(what, rep, isRBI) ==
    LET st0 == newCounter(RunState(rep, isRBI))
        dctx == DesugarContext(Len(st0.ctr), noName, NoLoc, noName) IN
    Bind(node2TreeImpl(dctx, what, st0), LAMBDA result :
       IF result.st.exc
       THEN [tree |-> NoTree, threw |-> TRUE, st |-> result.st]
       ELSE [tree |-> Verifier_run(liftTopLevel(dctx, what.loc, result.t)),
             threw |-> FALSE, st |-> result.st])

\* node2Tree under the given value of locReported; threw tells how it left
node2Tree(what, rep, isRBI) ==
    LET st0 == newCounter(RunState(rep, isRBI))
        dctx == DesugarContext(Len(st0.ctr), noName, NoLoc, noName)
        loc == what.loc IN
    Bind(node2TreeImpl(dctx, what, st0), LAMBDA result :
    LET lifted == liftTopLevel(dctx, loc, result.t)
        verifiedResult == Verifier_run(lifted) IN
       IF result.st.exc
       THEN [tree |-> NoTree, threw |-> TRUE, st |-> [result.st EXCEPT !.rep = FALSE]]
       ELSE [tree |-> verifiedResult, threw |-> FALSE, st |-> result.st])

-----------------------------------------------------------------------------
(* The T::Enum pass, src/rewriter/TEnum.cc.  The pass state is a RunState: *)
(* its diagnostics and its freshNameUnique requests.                       *)

\* MK::isMagicClass and MK::isSelfNew of ast/Helpers.h
isMagicClass(e) == e.tag = "ConstantLit" /\ e.symbol = "Magic"
isSelfNew(send) == send.fun = Name("<self-new>") /\ isMagicClass(send.recv)

isTEnum(klass) ==
    IF klass.kind # "Class" \/ klass.ancestors = <<>> THEN FALSE
    ELSE LET cnst == klass.ancestors[1] IN
         IF cnst.tag # "UnresolvedConstantLit" THEN FALSE
         ELSE IF cnst.cnst # ConstName("Enum") THEN FALSE
         ELSE LET scope == cnst.scope IN
              IF scope.tag # "UnresolvedConstantLit" THEN FALSE
              ELSE IF scope.cnst # ConstName("T") THEN FALSE
              ELSE IF scope.scope.tag = "EmptyTree" THEN TRUE
              ELSE IF scope.scope.tag # "ConstantLit" THEN FALSE
              ELSE scope.scope.symbol = "root"

\* asEnumsDo tells whether stat is a send of `enums` with a block
asEnumsDo(stat) == stat.tag = "Send" /\ stat.block # NoTree /\ stat.fun = Name("enums")

\* badConst reports and returns the empty vector
badConst(st, headerLoc, line1Loc) ==
    [stats |-> <<>>, st |-> beginError(st, headerLoc, "TEnumConstNotEnumValue")]

\* freshNameUnique(UniqueNameKind::TEnum, lhs->cnst, 1) entered as a constant name
freshTEnumName(cnst, st) ==
    [name |-> [nk |-> "constant", s |-> freshNameUnique("TEnum", cnst, 1)],
     st |-> [st EXCEPT !.log = Append(@, [scope |-> 0, kind |-> "TEnum", base |-> cnst,
                                          num |-> 1])]]

\* lines 93-111: the checks on `X = T.let(...)`
badLet(rhs) ==
    \/ rhs.recv.tag # "UnresolvedConstantLit"
    \/ Len(rhs.args) # 2
    \/ rhs.args[1].tag # "Send"
    \/ ~isSelfNew(rhs.args[1])

processStat(klass, stat, fromWhere, st) ==
    IF stat.tag # "Assign" THEN [stats |-> <<>>, st |-> st]
    ELSE IF stat.lhs.tag # "UnresolvedConstantLit" THEN [stats |-> <<>>, st |-> st]
    ELSE LET lhs == stat.lhs
             rhs == stat.rhs
         IN IF rhs.tag # "Send" THEN badConst(st, stat.loc, klass.loc)
            ELSE IF rhs.fun # Name("<self-new>") /\ rhs.fun # Name("let")
                 THEN badConst(st, stat.loc, klass.loc)
            ELSE IF rhs.fun = Name("<self-new>") /\ ~isMagicClass(rhs.recv)
                 THEN badConst(st, stat.loc, klass.loc)
            ELSE IF rhs.fun = Name("let") /\ badLet(rhs)
                 THEN badConst(st, stat.loc, klass.loc)
            ELSE LET st1 == IF fromWhere # "Inside"
                            THEN beginError(st, stat.loc, "TEnumOutsideEnumsDo")
                            ELSE st IN
                 Bind(freshTEnumName(lhs.cnst, st1), LAMBDA f :
                 LET classCnst == MK_UnresolvedConstant(lhs.loc, EmptyTree, f.name)
                     parent == <<klass.name>>
                     classRhs == <<MK_Send1(stat.loc, MK_Self(stat.loc), Name("include"),
                                            MK_Constant(stat.loc, "Singleton")),
                                   MK_Send0(stat.loc, MK_Self(stat.loc), Name("final!"))>>
                     classDef == MK_Class(stat.loc, stat.loc, classCnst, parent, classRhs)
                     singletonAsgn == 
                         MK_AssignE(stat.loc, lhs,
                                    MK_Send2(stat.loc, MK_Constant(stat.loc, "T"), Name("let"),
                                             MK_Send0(stat.loc, classCnst, Name("instance")),
                                             classCnst)) IN
                    [stats |-> <<classDef, singletonAsgn>>, st |-> f.st])

\* a faulty collectNewStats that drops a statement processStat left alone
collectNewStats_drops(klass, rhs, stat, fromWhere, st) ==
    Bind(processStat(klass, stat, fromWhere, st), LAMBDA newStats :
       [rhs |-> rhs \o newStats.stats, st |-> newStats.st])

\* a faulty collectNewStats that drops a constant assignment processStat
\* left alone
collectNewStats_dropsConstants(klass, rhs, stat, fromWhere, st) ==
    Bind(processStat(klass, stat, fromWhere, st), LAMBDA newStats :
       IF newStats.stats = <<>>
       THEN [rhs |-> IF stat.tag = "Assign" /\ stat.lhs.tag = "UnresolvedConstantLit"
                     THEN rhs ELSE Append(rhs, stat),
             st |-> newStats.st]
       ELSE [rhs |-> rhs \o newStats.stats, st |-> newStats.st])

\* a faulty collectNewStats that appends the new statements last first
collectNewStats_lastFirst(klass, rhs, stat, fromWhere, st) ==
    Bind(processStat(klass, stat, fromWhere, st), LAMBDA newStats :
       IF newStats.stats = <<>>
       THEN [rhs |-> Append(rhs, stat), st |-> newStats.st]
       ELSE [rhs |-> rhs \o [i \in 1..Len(newStats.stats) |->
                                 newStats.stats[Len(newStats.stats) + 1 - i]],
             st |-> newStats.st])

\* collectNewStats appends to klass->rhs, here rhs
collectNewStats(klass, rhs, stat, fromWhere, st) ==
    Bind(processStat(klass, stat, fromWhere, st), LAMBDA newStats :
       IF newStats.stats = <<>>
       THEN [rhs |-> Append(rhs, stat), st |-> newStats.st]
       ELSE [rhs |-> rhs \o newStats.stats, st |-> newStats.st])

RECURSIVE collectAll(_, _, _, _, _)
\* collectNewStats on each statement of a list, in order
collectAll(klass, rhs, stats, fromWhere, st) ==
    IF stats = <<>> THEN [rhs |-> rhs, st |-> st]
    ELSE Bind(collectNewStats(klass, rhs, Head(stats), fromWhere, st), LAMBDA c :
            collectAll(klass, c.rhs, Tail(stats), fromWhere, c.st))

RECURSIVE TEnumLoop(_, _, _, _)
\* lines 180-194: the loop of TEnum::run over oldRHS
TEnumLoop(klass, rhs, oldRHS, st) ==
    IF oldRHS = <<>> THEN [rhs |-> rhs, st |-> st]
    ELSE LET stat == Head(oldRHS) IN
         Bind(IF asEnumsDo(stat)
              THEN IF stat.block.body.tag = "InsSeq"
                   THEN collectAll(klass, rhs,
                            Append(stat.block.body.stats, stat.block.body.expr),
                            "Inside", st)
                   ELSE collectNewStats(klass, rhs, stat.block.body, "Inside", st)
              ELSE collectNewStats(klass, rhs, stat, "Outside", st), LAMBDA c :
            TEnumLoop(klass, c.rhs, Tail(oldRHS), c.st))

\* TEnum::run changes klass->rhs in place: the class it leaves, with the state
TEnum_run(runningUnderAutogen, klass, st) ==
    IF runningUnderAutogen THEN [klass |-> klass, st |-> st]
    ELSE IF ~isTEnum(klass) THEN [klass |-> klass, st |-> st]
    ELSE LET oldRHS == klass.rhs
             loc == klass.declLoc
             prelude == <<MK_Send1(loc, MK_Self(loc), Name("extend"),
                                   MK_Constant(loc, "T_Helpers")),
                          MK_Send0(loc, MK_Self(loc), Name("abstract!")),
                          MK_Send0(loc, MK_Self(loc), Name("sealed!"))>> IN
         Bind(TEnumLoop(klass, prelude, oldRHS, st), LAMBDA l :
            [klass |-> [klass EXCEPT !.rhs = l.rhs], st |-> l.st])

-----------------------------------------------------------------------------
(* The compilation units the drivers feed to node2Tree.  The root node of  *)
(* a unit is at Loc 1 and the i-th child of the node at l is at Sub(l, i), *)
(* so every node of a unit has its own Loc.                                *)

RootLoc == 1
Unit(node, isRBI) == [node |-> node, isRBI |-> isRBI]

\* expressions without a fresh name: a local and a call on the implicit self
ExprPool(l) == {PVar("LVar", l, Name("x")), PSend(l, NoNode, Name("f"), <<>>)}
ArgExpr(c, l) ==
    IF c = "lvar" THEN PVar("LVar", l, Name("a")) ELSE PSend(l, NoNode, Name("g"), <<>>)
\* argument lists of 0..MaxArgs arguments for a send at l
ArgLists(l) ==
    UNION {{[i \in 1..n |-> ArgExpr(c[i], Sub(l, i + 1))] : c \in [1..n -> {"lvar", "send"}]}
           : n \in 0..MaxArgs}
Receivers(l) ==
    {NoNode, PVar("LVar", l, Name("r")), PSend(l, NoNode, Name("h"), <<>>)}
\* left-hand sides of a compound assignment
SendLhs(l) ==
    {PSend(l, recv, Name("m"), args) : recv \in Receivers(Sub(l, 1)), args \in ArgLists(l)}
OtherLhs(l) ==
    {PVar("LVarLhs", l, Name("x")), PVar("IVarLhs", l, Name("@x")),
     PVar("GVarLhs", l, Name("$x")),
     PConstLhs(l, NoNode, ConstName("X")),
     PCSend(l, PVar("LVar", Sub(l, 1), Name("r")), Name("m"), <<>>),
     PNode("Nil", l)}
AsgnNode(k, l, lhs, rhs) ==
    CASE k = "AndAsgn" -> PAndAsgn(l, lhs, rhs)
      [] k = "OrAsgn" -> POrAsgn(l, lhs, rhs)
      [] k = "OpAsgn" -> POpAsgn(l, lhs, Name("+"), rhs)
AsgnNodes(l) ==
    {AsgnNode(k, l, lhs, rhs) : k \in {"AndAsgn", "OrAsgn", "OpAsgn"},
                                lhs \in SendLhs(Sub(l, 1)) \cup OtherLhs(Sub(l, 1)),
                                rhs \in ExprPool(Sub(l, 2))}
\* a node no arm of the typecase accepts outside a send: desugaring it raises
Raising(l) == PBlockPass(l, PVar("LVar", Sub(l, 1), Name("b")))
\* an expression that mints one fresh name: the lhs of `f && x` is no reference
Minting(l) ==
    PAnd(l, PSend(Sub(l, 1), NoNode, Name("f"), <<>>), PVar("LVar", Sub(l, 2), Name("x")))
\* constants written `X`, `A::X` and `::X`
ConstLhsPool(l) ==
    {PConstLhs(l, NoNode, ConstName("X")),
     PConstLhs(l, PConst(Sub(l, 1), NoNode, ConstName("A")), ConstName("X")),
     PConstLhs(l, PNode("Cbase", Sub(l, 1)), ConstName("X"))}
\* compound assignments to a constant, the right-hand side a plain
\* expression or one that mints a name of its own
ConstAsgnNodes(l) ==
    {AsgnNode(k, l, lhs, rhs) : k \in {"AndAsgn", "OrAsgn", "OpAsgn"},
                                lhs \in ConstLhsPool(Sub(l, 1)),
                                rhs \in ExprPool(Sub(l, 2)) \cup {Minting(Sub(l, 2))}}
AsgnUnits == {Unit(n, FALSE) : n \in AsgnNodes(RootLoc) \cup ConstAsgnNodes(RootLoc)}

\* the targets of a multiple assignment: a variable, a splat binding a
\* variable, a bare `*`, and the nested list `(u, *w)`
TargetKinds == {"var", "splat", "star", "mlhs"}
TargetNames == <<"a", "b", "c", "d">>
PatternNames == <<"P1", "P2", "P3", "P4">>
BodyNames == <<"y1", "y2", "y3">>
UndefNames == <<"m1", "m2", "m3">>
Target(c, l, i) ==
    CASE c = "var" -> PVar("LVarLhs", l, Name(TargetNames[i]))
      [] c = "splat" -> PSplatLhs(l, PVar("LVarLhs", Sub(l, 1), Name(TargetNames[i])))
      [] c = "star" -> PSplatLhs(l, NoNode)
      [] c = "mlhs" -> PMlhs(l, <<PVar("LVarLhs", Sub(l, 1), Name("u")),
                                  PSplatLhs(Sub(l, 2),
                                            PVar("LVarLhs", Sub(Sub(l, 2), 1), Name("w")))>>)
\* `t1, .., tn = x` for 1..MaxTargets targets; lists with a second splat, which
\* the grammar has no rule for, are among them
MasgnNodes(l) ==
    UNION {{PMasgn(l, PMlhs(Sub(l, 1), [i \in 1..n |-> Target(c[i], Sub(Sub(l, 1), i), i)]),
                   PVar("LVar", Sub(l, 2), Name("x")))
              : c \in [1..n -> TargetKinds]} : n \in 1..MaxTargets}
MasgnUnits == {Unit(n, FALSE) : n \in MasgnNodes(RootLoc)}

\* `when p1, .., pk then yi`, k patterns and the body under l
WhenNode(l, k, i) ==
    PWhen(l, [j \in 1..k |-> PConst(Sub(l, j), NoNode, ConstName(PatternNames[j]))],
          PVar("LVar", Sub(l, MaxPatterns + 1), Name(BodyNames[i])))
\* `case x when .. else z end` with 1..MaxWhens clauses of 1..MaxPatterns
\* patterns, with and without the condition and the else
CaseNodes(l) ==
    UNION {{PCase(l, cond, [i \in 1..n |-> WhenNode(Sub(l, i + 1), ks[i], i)], els)
              : ks \in [1..n -> 1..MaxPatterns],
                cond \in {NoNode, PVar("LVar", Sub(l, 1), Name("x"))},
                els \in {NoNode, PVar("LVar", Sub(l, MaxWhens + 2), Name("z"))}}
           : n \in 1..MaxWhens}
CaseUnits == {Unit(n, FALSE) : n \in CaseNodes(RootLoc)}

\* what a rescue clause binds: nothing, the local e, `@e`
RescueVarKinds == {"none", "local", "ivar"}
RescueVar(c, l) ==
    CASE c = "none" -> NoNode
      [] c = "local" -> PVar("LVarLhs", l, Name("e"))
      [] c = "ivar" -> PVar("IVarLhs", l, Name("@e"))
\* `rescue => v then r` and `rescue E => v then r`
Resbody(withClass, c, l) ==
    PResbody(l,
             IF withClass
             THEN PArray(Sub(l, 1), <<PConst(Sub(Sub(l, 1), 1), NoNode, ConstName("E"))>>)
             ELSE NoNode,
             RescueVar(c, Sub(l, 2)), PVar("LVar", Sub(l, 3), Name("r")))
\* `begin b rescue .. else el end` with 1..MaxClauses rescue clauses
RescueNodes(l) ==
    UNION {{PRescue(l, PVar("LVar", Sub(l, 1), Name("b")),
                    [i \in 1..n |-> Resbody(w[i], c[i], Sub(l, i + 2))], els)
              : w \in [1..n -> BOOLEAN], c \in [1..n -> RescueVarKinds],
                els \in {NoNode, PVar("LVar", Sub(l, 2), Name("el"))}}
           : n \in 1..MaxClauses}
RescueUnits == {Unit(n, FALSE) : n \in RescueNodes(RootLoc)}

\* the operands of a return, break or next: x, the send f, the block pass &b
OperandKinds == {"lvar", "send", "blockpass"}
Operand(c, l) ==
    CASE c = "lvar" -> PVar("LVar", l, Name("x"))
      [] c = "send" -> PSend(l, NoNode, Name("f"), <<>>)
      [] c = "blockpass" -> PBlockPass(l, PVar("LVar", Sub(l, 1), Name("b")))
ExitNodes(l) ==
    UNION {{PExit(k, l, [i \in 1..n |-> Operand(c[i], Sub(l, i))])
              : k \in {"Return", "Break", "Next"}, c \in [1..n -> OperandKinds]}
           : n \in 0..MaxOperands}
ExitUnits == {Unit(n, FALSE) : n \in ExitNodes(RootLoc)}

\* the node kinds that go to unsupportedNode: BEGIN and END blocks, `$1`,
\* the two flip-flops, a bare regexp condition, `redo`, `__ENCODING__`
UnsupportedKinds ==
    {"Preexe", "Postexe", "Backref", "EFlipflop", "IFlipflop", "MatchCurLine", "Redo",
     "EncodingLiteral"}
\* `undef :m1, .., :mn`
UndefNode(l, n) == PUndef(l, [i \in 1..n |-> PSymbol(Sub(l, i), Name(UndefNames[i]))])
\* each of them alone, and as the first statement of `<node>; x`
UnsupportedNodes(l) ==
    LET alone(m) == {PNode(k, m) : k \in UnsupportedKinds}
                       \cup {UndefNode(m, n) : n \in 1..MaxUndefs}
    IN alone(l)
       \cup {PBegin(l, <<n, PVar("LVar", Sub(l, 2), Name("x"))>>) : n \in alone(Sub(l, 1))}
UnsupportedUnits == {Unit(n, FALSE) : n \in UnsupportedNodes(RootLoc)}

\* the digits of integer literals: small ones, the two ends of the int64_t
\* range, the first value beyond it, and one of twenty digits
LiteralDigits ==
    {<<"0">>, <<"5">>, <<"1", "_", "0", "0", "0">>, <<"0", "0", "7">>,
     <<"9", "2", "2", "3", "3", "7", "2", "0", "3", "6", "8", "5", "4", "7", "7", "5", "8",
       "0", "7">>,
     <<"9", "2", "2", "3", "3", "7", "2", "0", "3", "6", "8", "5", "4", "7", "7", "5", "8",
       "0", "8">>,
     <<"9", "_", "2", "2", "3", "3", "7", "2", "0", "3", "6", "8", "5", "4", "7", "7", "5",
       "8", "0", "8">>,
     <<"1", "0", "0", "0", "0", "0", "0", "0", "0", "0", "0", "0", "0", "0", "0", "0", "0",
       "0", "0", "0">>}
\* each of them plain, behind a `~`, and behind a `-`
IntegerTexts ==
    LiteralDigits \cup {<<"~">> \o d : d \in LiteralDigits}
                  \cup {<<"-">> \o d : d \in LiteralDigits}
                  \cup {<<"~", "-">> \o d : d \in LiteralDigits}
\* the literal alone, and as the argument of `f(..)`
IntegerNodes(l) ==
    {PInteger(l, t) : t \in IntegerTexts}
    \cup {PSend(l, NoNode, Name("f"), <<PInteger(Sub(l, 1), t)>>) : t \in IntegerTexts}
IntegerUnits == {Unit(n, FALSE) : n \in IntegerNodes(RootLoc)}

\* what an `ensure` is put on: nothing, a statement, a body with a rescue
\* clause, and a `begin .. ensure a end`, alone or behind a statement
EnsuredKinds == {"none", "plain", "rescue", "ensure", "begin", "stmts"}
Ensured(c, l) ==
    LET inner(m) == PEnsure(m, PVar("LVar", Sub(m, 1), Name("x")),
                            PVar("LVar", Sub(m, 2), Name("a")))
    IN CASE c = "none" -> NoNode
         [] c = "plain" -> PVar("LVar", l, Name("x"))
         [] c = "rescue" -> PRescue(l, PVar("LVar", Sub(l, 1), Name("b")),
                                    <<Resbody(FALSE, "local", Sub(l, 3))>>, NoNode)
         [] c = "ensure" -> inner(l)
         [] c = "begin" -> PKwbegin(l, <<inner(Sub(l, 1))>>)
         [] c = "stmts" -> PKwbegin(l, <<PVar("LVar", Sub(l, 1), Name("s")), inner(Sub(l, 2))>>)
\* `.. ensure b`, as it is and as the one statement of a `begin .. end`
EnsureNodes(l) ==
    {PEnsure(l, Ensured(c, Sub(l, 1)), PVar("LVar", Sub(l, 2), Name("b")))
        : c \in EnsuredKinds}
    \cup {PKwbegin(l, <<PEnsure(Sub(l, 1), Ensured(c, Sub(Sub(l, 1), 1)),
                                PVar("LVar", Sub(Sub(l, 1), 2), Name("b")))>>)
             : c \in EnsuredKinds}
EnsureUnits == {Unit(n, FALSE) : n \in EnsureNodes(RootLoc)}

\* the variables of a `for`: a local, an instance variable, two locals, a
\* local and an instance variable
ForVars(l) ==
    {PVar("LVarLhs", l, Name("a")), PVar("IVarLhs", l, Name("@a")),
     PMlhs(l, <<PVar("LVarLhs", Sub(l, 1), Name("a")), PVar("LVarLhs", Sub(l, 2), Name("b"))>>),
     PMlhs(l, <<PVar("LVarLhs", Sub(l, 1), Name("a")), PVar("IVarLhs", Sub(l, 2), Name("@b"))>>)}
\* `for v in e do b end`, b nothing, a local or a statement that mints a name
ForNodes(l) ==
    {PFor(l, v, e, b) : v \in ForVars(Sub(l, 1)), e \in ExprPool(Sub(l, 2)),
                        b \in {NoNode, PVar("LVar", Sub(l, 3), Name("y")), Minting(Sub(l, 3))}}
ForUnits == {Unit(n, FALSE) : n \in ForNodes(RootLoc)}

\* the parts of an interpolation: the literals "a" and "b", the expression x,
\* and `redo`, which desugars to an EmptyTree
PartKinds == {"a", "b", "x", "empty"}
Part(c, l) ==
    CASE c = "a" -> PString(l, Name("a"))
      [] c = "b" -> PString(l, Name("b"))
      [] c = "x" -> PVar("LVar", l, Name("x"))
      [] c = "empty" -> PNode("Redo", l)
PartLists(l) ==
    UNION {{[i \in 1..n |-> Part(c[i], Sub(l, i))] : c \in [1..n -> PartKinds]}
           : n \in 0..MaxParts}
InterpolationUnits ==
    {Unit(PDString(RootLoc, ps), FALSE) : ps \in PartLists(RootLoc)}
    \cup {Unit(PDSymbol(RootLoc, ps), FALSE) : ps \in PartLists(RootLoc)}

Stmt(c, l) ==
    CASE c = "lvar" -> PVar("LVar", l, Name("x"))
      [] c = "send" -> PSend(l, NoNode, Name("f"), <<>>)
      [] c = "and" -> Minting(l)
      [] c = "raise" -> Raising(l)
StmtKinds == {"lvar", "send", "and", "raise"}
\* a top-level Begin of 0..MaxStmts statements; plain statements; an empty Kwbegin
BeginUnits ==
    UNION {{Unit(PBegin(RootLoc, [i \in 1..n |-> Stmt(c[i], Sub(RootLoc, i))]), FALSE)
              : c \in [1..n -> StmtKinds]} : n \in 0..MaxStmts}
    \cup {Unit(Stmt(c, RootLoc), FALSE) : c \in StmtKinds}
    \cup {Unit(PKwbegin(RootLoc, <<>>), FALSE)}

\* surface parameters: positional, rest and destructuring
ParamKinds == {"Arg", "Restarg", "Mlhs"}
ParamNames == <<"p", "q", "s", "t">>
Param(c, l, i) ==
    CASE c = "Arg" -> PArg("Arg", l, Name(ParamNames[i]))
      [] c = "Restarg" -> PArg("Restarg", l, Name(ParamNames[i]))
      [] c = "Mlhs" -> PMlhs(l, <<PArg("Arg", Sub(l, 1), Name("u")),
                                  PArg("Arg", Sub(l, 2), Name("v"))>>)
ParamLists(l) ==
    UNION {{[i \in 1..n |-> Param(c[i], Sub(l, i), i)] : c \in [1..n -> ParamKinds]}
           : n \in 0..MaxParams}
\* the args of a def: absent, a list with or without a trailing &blk, or a
\* node that is no Args at all
ArgsNodes(l) ==
    {NoNode, PVar("LVar", l, Name("x"))}
    \cup {PArgs(l, ps) : ps \in ParamLists(l)}
    \cup {PArgs(l, Append(ps, PArg("Blockarg", Sub(l, Len(ps) + 1), Name("blk"))))
            : ps \in ParamLists(l)}
MethodBodies(l) ==
    {NoNode, PVar("LVar", l, Name("x")), PSend(l, NoNode, Name("block_given?"), <<>>),
     Minting(l)}
MethodNodes(l) ==
    {PDefMethod(l, Name("m"), a, b) : a \in ArgsNodes(Sub(l, 1)), b \in MethodBodies(Sub(l, 2))}
    \cup {PDefS(l, PNode("Self", Sub(l, 3)), Name("m"), a, b)
            : a \in ArgsNodes(Sub(l, 1)), b \in MethodBodies(Sub(l, 2))}
MethodUnits ==
    {Unit(n, rbi) : n \in MethodNodes(RootLoc), rbi \in BOOLEAN}
    \cup {Unit(PDefS(RootLoc, PVar("LVar", Sub(RootLoc, 3), Name("x")), Name("m"), NoNode,
                     NoNode), FALSE)}

\* the bodies of methods of an RBI file: none, assignments to an instance
\* variable and to a local, a call, and pairs of them
RBIStat(c, l) ==
    CASE c = "ivasgn" -> PAssign(l, PVar("IVarLhs", Sub(l, 1), Name("@a")), PNode("Nil", Sub(l, 2)))
      [] c = "lvasgn" -> PAssign(l, PVar("LVarLhs", Sub(l, 1), Name("x")), PNode("Nil", Sub(l, 2)))
      [] c = "send" -> PSend(l, NoNode, Name("f"), <<>>)
RBIStatKinds == {"ivasgn", "lvasgn", "send"}
RBIBodies(l) ==
    {NoNode}
    \cup {RBIStat(c, l) : c \in RBIStatKinds}
    \cup {PBegin(l, <<RBIStat(c, Sub(l, 1)), RBIStat(d, Sub(l, 2))>>)
             : c \in {"ivasgn", "send"}, d \in {"ivasgn", "send"}}
RBIArgs(l) ==
    {NoNode, PArgs(l, <<Param("Arg", Sub(l, 1), 1)>>), PArgs(l, <<Param("Mlhs", Sub(l, 1), 1)>>)}
RBIUnits ==
    {Unit(PDefMethod(RootLoc, Name("m"), a, b), rbi)
       : a \in RBIArgs(Sub(RootLoc, 1)), b \in RBIBodies(Sub(RootLoc, 2)), rbi \in BOOLEAN}

\* the i-th of a row of minting statements: `f && x`, `f || x`, `r&.m` in turn
Req(i, l) ==
    CASE i % 3 = 1 -> Minting(l)
      [] i % 3 = 2 -> POr(l, PSend(Sub(l, 1), NoNode, Name("f"), <<>>),
                          PVar("LVar", Sub(l, 2), Name("x")))
      [] i % 3 = 0 -> PCSend(l, PVar("LVar", Sub(l, 1), Name("r")), Name("m"), <<>>)
\* n minting statements, the i-th at child off + i of l
Reqs(n, l, off) == [i \in 1..n |-> Req(i, Sub(l, off + i))]
ScopeKinds == {"Class", "Module", "SClass", "DefMethod", "DefS"}
\* a node that opens a scope around the statements of a Begin
ScopeNode(k, l, stmts) ==
    LET body == PBegin(Sub(l, 2), stmts) IN
    CASE k = "Class" -> PClass(l, PConst(Sub(l, 1), NoNode, ConstName("C")), NoNode, body)
      [] k = "Module" -> PModule(l, PConst(Sub(l, 1), NoNode, ConstName("M")), body)
      [] k = "SClass" -> PSClass(l, PNode("Self", Sub(l, 1)), body)
      [] k = "DefMethod" -> PDefMethod(l, Name("m"), NoNode, body)
      [] k = "DefS" -> PDefS(l, PNode("Self", Sub(l, 1)), Name("m"), NoNode, body)
\* a requests; a scope holding b requests, a method of c requests and d
\* requests; e requests
NestedScopes(k, a, b, c, d, e) ==
    LET l == Sub(RootLoc, a + 1)
        bl == Sub(l, 2)
        il == Sub(bl, b + 1) IN
    Bind(PDefMethod(il, Name("n"), NoNode, PBegin(Sub(il, 2), Reqs(c, Sub(il, 2), 0))), LAMBDA inner :
    Bind(ScopeNode(k, l, Reqs(b, bl, 0) \o <<inner>> \o Reqs(d, bl, b + 1)), LAMBDA scope :
       PBegin(RootLoc, Reqs(a, RootLoc, 0) \o <<scope>> \o Reqs(e, RootLoc, a + 1))))
ScopeUnits ==
    {Unit(NestedScopes(k, a, b, c, d, e), FALSE)
       : k \in ScopeKinds, a \in 0..MaxReqs, b \in 0..1, c \in 0..MaxReqs, d \in 0..1,
         e \in 0..1}

\* the nodes a raising node can sit in
WrapKinds == {"Begin", "If", "Send", "Assign", "DefMethod", "Class"}
Wrap(k, l, inner) ==
    CASE k = "Begin" -> PBegin(l, <<Minting(Sub(l, 2)), inner>>)
      [] k = "If" -> PIf(l, inner, PVar("LVar", Sub(l, 2), Name("x")), NoNode)
      [] k = "Send" -> PSend(l, NoNode, Name("f"), <<inner>>)
      [] k = "Assign" -> PAssign(l, PVar("LVarLhs", Sub(l, 2), Name("x")), inner)
      [] k = "DefMethod" -> PDefMethod(l, Name("m"), NoNode, inner)
      [] k = "Class" -> PClass(l, PConst(Sub(l, 2), NoNode, ConstName("C")), NoNode, inner)
\* the nodes whose desugaring raises: a stray BlockPass, a node kind without
\* an arm, a compound assignment to a literal, a def whose args are no Args
RaiseKinds == {"BlockPass", "Node", "OpAsgn", "DefMethod"}
RaisingNode(k, l) ==
    CASE k = "BlockPass" -> Raising(l)
      [] k = "Node" -> PNode("Node", l)
      [] k = "OpAsgn" -> POpAsgn(l, PNode("Nil", Sub(l, 1)), Name("+"),
                                 PVar("LVar", Sub(l, 2), Name("v")))
      [] k = "DefMethod" -> PDefMethod(l, Name("m"), PVar("LVar", Sub(l, 1), Name("x")),
                                       NoNode)
RECURSIVE Wrapped(_, _, _)
\* the wrappers ws, outermost first, around the node inner(l) at the inner Loc
Wrapped(ws, l, rk) ==
    IF ws = <<>> THEN RaisingNode(rk, l)
    ELSE Wrap(Head(ws), l, Wrapped(Tail(ws), Sub(l, 1), rk))
RaiseUnits ==
    UNION {{Unit(Wrapped(ws, RootLoc, rk), FALSE) : ws \in [1..n -> WrapKinds],
                                                    rk \in RaiseKinds}
           : n \in 0..MaxDepth}

Units == AsgnUnits \cup MasgnUnits \cup InterpolationUnits \cup CaseUnits \cup RescueUnits
         \cup ExitUnits \cup UnsupportedUnits
         \cup IntegerUnits \cup RBIUnits \cup ForUnits \cup EnsureUnits
         \cup BeginUnits \cup MethodUnits \cup ScopeUnits
         \cup RaiseUnits

-----------------------------------------------------------------------------
(* The Minitest pass, src/rewriter/Minitest.cc, with the constructors of   *)
(* ast/Helpers.h it uses and the walk of ast/treemap/treemap.h.            *)

MK_Unsafe(loc, e) == MK_Send1(loc, MK_Constant(loc, "T"), Name("unsafe"), e)
MK_Let(loc, value, type) == MK_Send2(loc, MK_Constant(loc, "T"), Name("let"), value, type)
MK_Hash0(loc) == [tag |-> "Hash", loc |-> loc]
MK_SigVoid(loc, hash) ==
    LET params == MK_Send1(loc, MK_Self(loc), Name("params"), hash)
        void == MK_Send0(loc, params, Name("void"))
    IN MK_SendB(loc, MK_Constant(loc, "Sorbet_Private_Static"), Name("sig"), <<>>, {},
                MK_Block(loc, void, <<>>))
MK_Method0(loc, declLoc, name, rhs, flags) ==
    [MK_Method(loc, declLoc, name, <<>>, rhs) EXCEPT !.flags = flags]
\* Expression::isSelfReference
isSelfReference(e) == e.tag = "Self"

\* the ConstantMover: its fields.  classDepth is a u4; it is kept here as the
\* signed residue of its value modulo 2^32, which is 0 exactly when the u4 is
\* lowest is no field of the class: it keeps the least value classDepth took
ConstantMover == [classDepth |-> 0, movedConstants |-> <<>>, lowest |-> 0]
\* classDepth-- with the least value kept
decrementDepth(m) ==
    [m EXCEPT !.classDepth = @ - 1,
              !.lowest = IF m.classDepth - 1 < @ THEN m.classDepth - 1 ELSE @]

createConstAssign(asgn) ==
    LET loc == asgn.loc
        unsafeNil == MK_Unsafe(loc, MK_Nil(loc))
    IN IF asgn.rhs.tag = "Send" /\ asgn.rhs.fun = Name("let") /\ Len(asgn.rhs.args) = 2
       THEN MK_AssignE(asgn.loc, asgn.lhs, MK_Let(loc, unsafeNil, asgn.rhs.args[2]))
       ELSE MK_AssignE(asgn.loc, asgn.lhs, unsafeNil)

\* a faulty postTransformAssign without the case of a constant on the right
postTransformAssign_noAlias(m, asgn) ==
    IF asgn.lhs.tag = "UnresolvedConstantLit"
    THEN LET name == MK_Symbol(asgn.lhs.loc, asgn.lhs.cnst)
             module == MK_Constant(asgn.loc, "Module")
         IN [t |-> MK_Send2(asgn.loc, module, Name("const_set"), name, asgn.rhs),
             m |-> [m EXCEPT !.movedConstants = Append(@, createConstAssign(asgn))]]
    ELSE [t |-> asgn, m |-> m]

postTransformAssign(m, asgn) ==
    IF asgn.lhs.tag = "UnresolvedConstantLit"
    THEN IF asgn.rhs.tag = "UnresolvedConstantLit"
         THEN [t |-> EmptyTree, m |-> [m EXCEPT !.movedConstants = Append(@, asgn)]]
         ELSE LET name == MK_Symbol(asgn.lhs.loc, asgn.lhs.cnst)
                  module == MK_Constant(asgn.loc, "Module")
              IN [t |-> MK_Send2(asgn.loc, module, Name("const_set"), name, asgn.rhs),
                  m |-> [m EXCEPT !.movedConstants = Append(@, createConstAssign(asgn))]]
    ELSE [t |-> asgn, m |-> m]

\* a faulty preTransformClassDef that does not count the class
preTransformClassDef_uncounted(m, classDef) == m

preTransformClassDef(m, classDef) == [m EXCEPT !.classDepth = @ + 1]

postTransformClassDef(m, classDef) ==
    LET m1 == decrementDepth(m)
    IN IF m1.classDepth = 0
       THEN [t |-> EmptyTree, m |-> [m1 EXCEPT !.movedConstants = Append(@, classDef)]]
       ELSE [t |-> classDef, m |-> m1]

isDescribe(send) ==
    isSelfReference(send.recv) /\ Len(send.args) = 1 /\ send.fun = Name("describe")

preTransformSend(m, send) ==
    IF isDescribe(send) THEN [m EXCEPT !.classDepth = @ + 1] ELSE m

postTransformSend(m, send) ==
    IF isDescribe(send)
    THEN LET m1 == decrementDepth(m)
         IN IF m1.classDepth = 0
            THEN [t |-> EmptyTree, m |-> [m1 EXCEPT !.movedConstants = Append(@, send)]]
            ELSE [t |-> send, m |-> m1]
    ELSE [t |-> send, m |-> m]

addConstantsToExpression(m, loc, expr) ==
    IF m.movedConstants = <<>> THEN expr ELSE MK_InsSeq(loc, m.movedConstants, expr)

RECURSIVE TreeMap_apply(_, _)
RECURSIVE TreeMap_all(_, _)
\* TreeMap::apply on each tree of a list, in order
TreeMap_all(m, ts) ==
    IF ts = <<>> THEN [ts |-> <<>>, m |-> m]
    ELSE Bind(TreeMap_apply(m, Head(ts)), LAMBDA h :
         Bind(TreeMap_all(h.m, Tail(ts)), LAMBDA r :
            [ts |-> <<h.t>> \o r.ts, m |-> r.m]))
\* TreeMap::apply(ctx, constantMover, tree): children first, in field order,
\* between the pre and the post hook of the node
TreeMap_apply(m, t) ==
    CASE t.tag = "ClassDef" ->
           Bind(preTransformClassDef(m, t), LAMBDA m1 :
           Bind(TreeMap_all(m1, t.rhs), LAMBDA rhs :
              postTransformClassDef(rhs.m, [t EXCEPT !.rhs = rhs.ts])))
      [] t.tag = "Send" ->
           Bind(preTransformSend(m, t), LAMBDA m1 :
           Bind(TreeMap_apply(m1, t.recv), LAMBDA recv :
           Bind(TreeMap_all(recv.m, t.args), LAMBDA args :
           Bind(IF t.block = NoTree THEN [t |-> NoTree, m |-> args.m]
                ELSE TreeMap_apply(args.m, t.block.body), LAMBDA body :
           LET block == IF t.block = NoTree THEN NoTree
                        ELSE [t.block EXCEPT !.body = body.t] IN
              postTransformSend(body.m, [t EXCEPT !.recv = recv.t, !.args = args.ts,
                                                  !.block = block])))))
      [] t.tag = "Assign" ->
           Bind(TreeMap_apply(m, t.lhs), LAMBDA lhs :
           Bind(TreeMap_apply(lhs.m, t.rhs), LAMBDA rhs :
              postTransformAssign(rhs.m, [t EXCEPT !.lhs = lhs.t, !.rhs = rhs.t])))
      [] t.tag = "InsSeq" ->
           Bind(TreeMap_all(m, t.stats), LAMBDA stats :
           Bind(TreeMap_apply(stats.m, t.expr), LAMBDA expr :
              [t |-> [t EXCEPT !.stats = stats.ts, !.expr = expr.t], m |-> expr.m]))
      [] t.tag = "If" ->
           Bind(TreeMap_apply(m, t.cond), LAMBDA cond :
           Bind(TreeMap_apply(cond.m, t.thenp), LAMBDA thenp :
           Bind(TreeMap_apply(thenp.m, t.elsep), LAMBDA elsep :
              [t |-> [t EXCEPT !.cond = cond.t, !.thenp = thenp.t, !.elsep = elsep.t],
               m |-> elsep.m])))
      [] t.tag = "MethodDef" ->
           Bind(TreeMap_apply(m, t.rhs), LAMBDA rhs :
              [t |-> [t EXCEPT !.rhs = rhs.t], m |-> rhs.m])
      [] OTHER -> [t |-> t, m |-> m]

addSigVoid(expr) == MK_InsSeq1(expr.loc, MK_SigVoid(expr.loc, MK_Hash0(expr.loc)), expr)

\* to_s: the text of a string or symbol literal or of a constant, else the
\* printed expression
to_s(arg) ==
    IF arg.tag = "Literal" /\ arg.lk \in {"string", "symbol"} THEN arg.val.s
    ELSE IF arg.tag = "UnresolvedConstantLit" THEN arg.cnst.s
    ELSE IF arg.tag = "Send" THEN "<self>." \o arg.fun.s \o "()"
    ELSE arg.tag

RECURSIVE runSingle(_)
RECURSIVE recurse(_)
RECURSIVE recurseAll(_)
recurseAll(ts) == IF ts = <<>> THEN <<>> ELSE <<recurse(Head(ts))>> \o recurseAll(Tail(ts))

prepareBody(body0) ==
    Bind(recurse(body0), LAMBDA body :
       IF body.tag = "InsSeq"
       THEN [body EXCEPT !.stats = recurseAll(body.stats), !.expr = recurse(body.expr)]
       ELSE body)

\* the method `name` made of the block of send (lines 159-164 and 182-188)
asMethod(send, name) ==
    Bind(TreeMap_apply(ConstantMover, send.block.body), LAMBDA moved :
    Bind(addSigVoid(MK_Method0(send.loc, send.loc, name, prepareBody(moved.t),
                               {"RewriterSynthesized"})), LAMBDA method :
       addConstantsToExpression(moved.m, send.loc, method)))

\* runSingle returns the replacement of send, NoTree for nullptr
runSingle(send) ==
    IF send.block = NoTree THEN NoTree
    ELSE IF ~isSelfReference(send.recv) THEN NoTree
    ELSE IF send.args = <<>> /\ send.fun \in {Name("before"), Name("after")}
         THEN asMethod(send, IF send.fun = Name("after") THEN Name("<after>")
                             ELSE Name("initialize"))
    ELSE IF Len(send.args) # 1 THEN NoTree
    ELSE LET arg == send.args[1]
             argString == to_s(arg)
         IN IF send.fun = Name("describe")
            THEN MK_Class(send.loc, send.loc,
                          MK_UnresolvedConstant(arg.loc, EmptyTree,
                              ConstName("<describe '" \o argString \o "'>")),
                          <<MK_Self(arg.loc)>>, <<prepareBody(send.block.body)>>)
            ELSE IF send.fun = Name("it")
                 THEN asMethod(send, Name("<it '" \o argString \o "'>"))
                 ELSE NoTree

recurse(body) ==
    IF body.tag = "Send"
    THEN Bind(runSingle(body), LAMBDA change :
            IF change # NoTree THEN change ELSE body)
    ELSE body

\* Minitest::run returns the statements that replace send, none for no match
Minitest_run(runningUnderAutogen, send) ==
    IF runningUnderAutogen THEN <<>>
    ELSE Bind(runSingle(send), LAMBDA exp :
            IF exp # NoTree THEN <<exp>> ELSE <<>>)

-----------------------------------------------------------------------------
(* The classes the rewriter driver hands to TEnum::run, as the passes      *)
(* before it leave them: `X = new` in an enum reads X = Magic.<self-new>(self). *)

SelfNew(l) == MK_Send1(l, MK_Constant(l, "Magic"), Name("<self-new>"), MK_Self(l))
CnstLit(l, name) == MK_UnresolvedConstant(l, EmptyTree, ConstName(name))
EnumStatKinds == {"X", "Y", "let", "bad", "send"}
\* a statement of an enum class: two values, a value in a T.let, a constant
\* that is no value, a call
EnumStat(c, l) ==
    CASE c = "X" -> MK_AssignE(l, CnstLit(Sub(l, 1), "X"), SelfNew(Sub(l, 2)))
      [] c = "Y" -> MK_AssignE(l, CnstLit(Sub(l, 1), "Y"), SelfNew(Sub(l, 2)))
      [] c = "let" -> MK_AssignE(l, CnstLit(Sub(l, 1), "Z"),
                          MK_Send2(Sub(l, 2), CnstLit(Sub(l, 3), "T"), Name("let"),
                                   SelfNew(Sub(l, 4)), CnstLit(Sub(l, 5), "Z")))
      [] c = "bad" -> MK_AssignE(l, CnstLit(Sub(l, 1), "W"), MK_Int(Sub(l, 2), 1))
      [] c = "send" -> MK_Send0(l, MK_Self(l), Name("foo"))
\* `enums do ... end` around the statements
EnumsDo(l, stats) ==
    LET n == Len(stats)
        body == IF n = 0 THEN EmptyTree
                ELSE MK_InsSeq(Sub(l, 1), SubSeq(stats, 1, n - 1), stats[n])
    IN MK_SendB(l, MK_Self(l), Name("enums"), <<>>, {}, MK_Block(l, body, <<>>))
InsideLists(l) ==
    UNION {{[i \in 1..n |-> EnumStat(c[i], Sub(l, i + 1))] : c \in [1..n -> EnumStatKinds]}
           : n \in 0..MaxVals}
\* bodies: at most one statement outside, then the enums block
EnumBodies(l) ==
    {<<EnumsDo(Sub(l, 3), ins)>> : ins \in InsideLists(Sub(l, 3))}
    \cup {<<EnumStat(c, Sub(l, 2)), EnumsDo(Sub(l, 3), ins)>>
            : c \in EnumStatKinds, ins \in InsideLists(Sub(l, 3))}
    \cup {<<EnumStat(c, Sub(l, 2))>> : c \in EnumStatKinds}
TEnumAncestor(l) == MK_UnresolvedConstant(l, CnstLit(l, "T"), ConstName("Enum"))
RootedTEnumAncestor(l) ==
    MK_UnresolvedConstant(l, MK_UnresolvedConstant(l, MK_Constant(l, "root"), ConstName("T")),
                          ConstName("Enum"))
EnumClass(l, name, ancestor, rhs) ==
    MK_Class(l, l, CnstLit(Sub(l, 1), name), <<ancestor>>, rhs)
\* enum classes; classes that only look like one; an enum class with one
\* `enums do` inside the other
EnumClasses(l) ==
    {EnumClass(l, "E", TEnumAncestor(Sub(l, 1)), rhs) : rhs \in EnumBodies(l)}
    \cup {EnumClass(l, "E", a, <<EnumStat(c, Sub(l, 2))>>)
            : a \in {RootedTEnumAncestor(Sub(l, 1)), CnstLit(Sub(l, 1), "Enum"),
                     MK_Constant(Sub(l, 1), "todo")},
              c \in EnumStatKinds}
    \cup {MK_Module(l, l, CnstLit(Sub(l, 1), "E"), <<TEnumAncestor(Sub(l, 1))>>,
                    <<EnumStat("X", Sub(l, 2))>>)}
    \cup {EnumClass(l, "E", TEnumAncestor(Sub(l, 1)),
                     <<EnumsDo(Sub(l, 3), <<EnumsDo(Sub(l, 4), <<EnumStat("X", Sub(l, 5))>>)>>)>>)}
\* the classes of a unit: one class, or two when a second enum follows
SecondLoc == RootLoc + 1
ClassLists ==
    {<<k>> : k \in EnumClasses(RootLoc)}
    \cup {<<k, EnumClass(SecondLoc, "F", TEnumAncestor(Sub(SecondLoc, 1)),
                        <<EnumsDo(Sub(SecondLoc, 3), <<EnumStat("X", Sub(SecondLoc, 4))>>)>>)>>
            : k \in {EnumClass(RootLoc, "E", TEnumAncestor(Sub(RootLoc, 1)), rhs)
                       : rhs \in {<<EnumsDo(Sub(RootLoc, 3), ins)>>
                                    : ins \in InsideLists(Sub(RootLoc, 3))}}}

RECURSIVE TEnumAll(_, _, _)
\* the rewriter driver: TEnum::run on each class of the unit
TEnumAll(runningUnderAutogen, klasses, st) ==
    IF klasses = <<>> THEN [klasses |-> <<>>, st |-> st]
    ELSE Bind(TEnum_run(runningUnderAutogen, Head(klasses), st), LAMBDA h :
         Bind(TEnumAll(runningUnderAutogen, Tail(klasses), h.st), LAMBDA t :
            [klasses |-> <<h.klass>> \o t.klasses, st |-> t.st]))

-----------------------------------------------------------------------------
(* The statements the rewriter driver hands to Minitest::run, and its walk *)
(* over the classes of a unit.                                             *)

TestSend(fun, args, body, l) ==
    MK_SendB(l, MK_Self(l), Name(fun), args, {}, MK_Block(l, body, <<>>))
TestBodyKinds ==
    {"empty", "asgn", "alias", "let", "class", "nested", "describe", "it", "seq", "call"}
\* the body of a test block
TestBody(c, l) ==
    LET asgn(m) == MK_AssignE(m, CnstLit(Sub(m, 1), "X"), MK_Int(Sub(m, 2), 1))
        str(m) == <<MK_String(m, Name("inner"))>>
    IN CASE c = "empty" -> EmptyTree
         [] c = "asgn" -> asgn(l)
         [] c = "alias" -> MK_AssignE(l, CnstLit(Sub(l, 1), "X"), CnstLit(Sub(l, 2), "Y"))
         [] c = "let" -> MK_AssignE(l, CnstLit(Sub(l, 1), "X"),
                             MK_Send2(Sub(l, 2), CnstLit(Sub(l, 3), "T"), Name("let"),
                                      MK_Int(Sub(l, 4), 1), CnstLit(Sub(l, 5), "Integer")))
         [] c = "class" -> MK_Class(l, l, CnstLit(Sub(l, 1), "Foo"), <<>>, <<asgn(Sub(l, 2))>>)
         [] c = "nested" ->
              MK_Class(l, l, CnstLit(Sub(l, 1), "Foo"), <<>>,
                       <<MK_Class(Sub(l, 2), Sub(l, 2), CnstLit(Sub(l, 3), "Bar"), <<>>,
                                  <<MK_Send0(Sub(l, 4), MK_Self(Sub(l, 4)), Name("foo"))>>)>>)
         [] c = "describe" -> TestSend("describe", str(Sub(l, 1)), asgn(Sub(l, 2)), l)
         [] c = "it" -> TestSend("it", str(Sub(l, 1)), EmptyTree, l)
         [] c = "seq" -> MK_InsSeq(l, <<TestSend("it", str(Sub(l, 1)), asgn(Sub(l, 2)), Sub(l, 3)),
                                       asgn(Sub(l, 4))>>,
                                   TestSend("before", <<>>, EmptyTree, Sub(l, 5)))
         [] c = "call" -> MK_Send0(l, MK_Self(l), Name("foo"))
\* argument lists of a test call: none, a string, a symbol, a constant,
\* another expression, two strings
TestArgs(l) ==
    {<<>>, <<MK_String(l, Name("d"))>>, <<MK_Symbol(l, Name("d"))>>, <<CnstLit(l, "D")>>,
     <<MK_Send0(l, MK_Self(l), Name("foo"))>>,
     <<MK_String(l, Name("d")), MK_String(Sub(l, 1), Name("e"))>>}
TestFuns == {"describe", "it", "before", "after", "test"}
TestStats(l) ==
    {TestSend(f, a, TestBody(c, Sub(l, 2)), l)
        : f \in TestFuns, a \in TestArgs(Sub(l, 1)), c \in TestBodyKinds}
    \cup {MK_Send1(l, MK_Self(l), Name("it"), MK_String(Sub(l, 1), Name("d"))),
          MK_SendB(l, CnstLit(Sub(l, 1), "R"), Name("it"), <<MK_String(Sub(l, 1), Name("d"))>>,
                   {}, MK_Block(l, EmptyTree, <<>>))}
\* a test class with one statement
TestClasses ==
    {MK_Class(RootLoc, RootLoc, CnstLit(Sub(RootLoc, 1), "MyTest"), <<>>, <<stat>>)
        : stat \in TestStats(Sub(RootLoc, 2))}

RECURSIVE Rewriter_dispatch(_, _)
\* the driver's loop over a class body: every Send goes to Minitest::run and
\* is replaced by the statements that returns, when it returns any
Rewriter_dispatch(runningUnderAutogen, stats) ==
    IF stats = <<>> THEN <<>>
    ELSE LET stat == Head(stats) IN
         Bind(IF stat.tag = "Send" THEN Minitest_run(runningUnderAutogen, stat)
              ELSE <<>>, LAMBDA nodes :
            (IF nodes = <<>> THEN <<stat>> ELSE nodes)
            \o Rewriter_dispatch(runningUnderAutogen, Tail(stats)))

RECURSIVE Rewriter_walk(_, _)
RECURSIVE Rewriter_walkAll(_, _)
Rewriter_walkAll(runningUnderAutogen, ts) ==
    IF ts = <<>> THEN <<>>
    ELSE <<Rewriter_walk(runningUnderAutogen, Head(ts))>>
         \o Rewriter_walkAll(runningUnderAutogen, Tail(ts))
\* the driver's walk: the classes inside a node first, then the body of the
\* class itself
Rewriter_walk(runningUnderAutogen, t) ==
    LET walk(x) == Rewriter_walk(runningUnderAutogen, x)
        walkAll(xs) == Rewriter_walkAll(runningUnderAutogen, xs)
    IN CASE t.tag = "ClassDef" ->
              [t EXCEPT !.rhs = Rewriter_dispatch(runningUnderAutogen, walkAll(t.rhs))]
         [] t.tag = "Send" ->
              [t EXCEPT !.recv = walk(t.recv), !.args = walkAll(t.args),
                        !.block = IF t.block = NoTree THEN NoTree
                                  ELSE [t.block EXCEPT !.body = walk(t.block.body)]]
         [] t.tag = "Assign" -> [t EXCEPT !.lhs = walk(t.lhs), !.rhs = walk(t.rhs)]
         [] t.tag = "InsSeq" -> [t EXCEPT !.stats = walkAll(t.stats), !.expr = walk(t.expr)]
         [] t.tag = "If" ->
              [t EXCEPT !.cond = walk(t.cond), !.thenp = walk(t.thenp), !.elsep = walk(t.elsep)]
         [] t.tag = "MethodDef" -> [t EXCEPT !.rhs = walk(t.rhs)]
         [] OTHER -> t

-----------------------------------------------------------------------------
(* The sequential driver: one unit after the other through node2Tree.      *)

NoUnit == Unit(NoNode, FALSE)
NoRw == [pass |-> "none"]
NoThreads == <<>>

Init ==
    /\ pc = "idle"
    /\ unit = NoUnit
    /\ tree = NoTree
    /\ threw = FALSE
    /\ run = RunState(FALSE, FALSE)
    /\ locReported = FALSE
    /\ entryFlag = FALSE
    /\ unitsDone = 0
    /\ unitsFailed = 0
    /\ rw = NoRw
    /\ thr = NoThreads
    /\ debug_mode \in BOOLEAN

\* the driver calls node2Tree on the next unit
DesugarUnit(u) ==
    /\ pc = "idle"
    /\ unitsDone < MaxUnits
    /\ \E r \in {node2Tree(u.node, locReported, u.isRBI)} :
          /\ tree' = r.tree
          /\ threw' = r.threw
          /\ run' = r.st
          /\ locReported' = r.st.rep
    /\ pc' = "desugared"
    /\ unit' = u
    /\ entryFlag' = locReported
    /\ unitsDone' = unitsDone + 1
    /\ UNCHANGED <<unitsFailed, rw, thr, debug_mode>>

\* the rewriter driver runs the T::Enum pass over the classes of a unit
RewriteTEnum(ks, autogen) ==
    /\ pc = "idle"
    /\ unitsDone < MaxUnits
    /\ \E r \in {TEnumAll(autogen, ks, RunState(FALSE, FALSE))} :
          rw' = [pass |-> "TEnum", runs |-> 1, autogen |-> autogen, before |-> ks,
                 after |-> r.klasses, diags |-> r.st.diags, log |-> r.st.log]
    /\ pc' = "rewritten"
    /\ unitsDone' = unitsDone + 1
    /\ UNCHANGED <<unit, tree, threw, run, locReported, entryFlag, unitsFailed, thr, debug_mode>>

\* the pass runs once more, over what it left
RewriteTEnumAgain ==
    /\ pc = "rewritten"
    /\ rw.pass = "TEnum"
    /\ rw.runs = 1
    /\ \E r \in {TEnumAll(rw.autogen, rw.after, RunState(FALSE, FALSE))} :
          rw' = [rw EXCEPT !.runs = 2, !.before = rw.after, !.after = r.klasses,
                           !.diags = r.st.diags, !.log = r.st.log]
    /\ UNCHANGED <<pc, unit, tree, threw, run, locReported, entryFlag, unitsDone,
                   unitsFailed, thr, debug_mode>>

\* the rewriter driver runs the test DSL pass over a class of a unit
RewriteMinitest(k, autogen) ==
    /\ pc = "idle"
    /\ unitsDone < MaxUnits
    /\ rw' = [pass |-> "Minitest", runs |-> 1, autogen |-> autogen, before |-> <<k>>,
              after |-> <<Rewriter_walk(autogen, k)>>, diags |-> <<>>, log |-> <<>>]
    /\ pc' = "rewritten"
    /\ unitsDone' = unitsDone + 1
    /\ UNCHANGED <<unit, tree, threw, run, locReported, entryFlag, unitsFailed, thr, debug_mode>>

\* the driver walks once more, over what the pass left
RewriteMinitestAgain ==
    /\ pc = "rewritten"
    /\ rw.pass = "Minitest"
    /\ rw.runs = 1
    /\ rw' = [rw EXCEPT !.runs = 2, !.before = rw.after,
                        !.after = Rewriter_walkAll(rw.autogen, rw.after)]
    /\ UNCHANGED <<pc, unit, tree, threw, run, locReported, entryFlag, unitsDone,
                   unitsFailed, thr, debug_mode>>

\* the driver moves on, whether the unit returned or threw
NextUnit ==
    /\ pc \in {"desugared", "rewritten"}
    /\ pc' = "idle"
    /\ unit' = NoUnit
    /\ tree' = NoTree
    /\ threw' = FALSE
    /\ run' = RunState(FALSE, FALSE)
    /\ entryFlag' = FALSE
    /\ unitsFailed' = unitsFailed + (IF threw THEN 1 ELSE 0)
    /\ rw' = NoRw
    /\ UNCHANGED <<locReported, unitsDone, thr, debug_mode>>

Next ==
    \/ \E u \in Units : DesugarUnit(u)
    \/ \E ks \in ClassLists, autogen \in BOOLEAN : RewriteTEnum(ks, autogen)
    \/ RewriteTEnumAgain
    \/ \E k \in TestClasses, autogen \in BOOLEAN : RewriteMinitest(k, autogen)
    \/ RewriteMinitestAgain
    \/ NextUnit

Spec == Init /\ [][Next]_vars

-----------------------------------------------------------------------------
(* The concurrent driver: two threads, each through node2Tree on a unit of *)
(* its own.  The counters, the context and the diagnostics of a run belong *)
(* to its thread; `bool locReported` (Desugar.cc line 328) is one variable *)
(* of the process, read and written without synchronisation in the catch   *)
(* of node2TreeImpl and written in the catch of node2Tree.                 *)

Threads == {"t1", "t2"}
IdleThread ==
    [state |-> "idle", unit |-> NoUnit, frames |-> <<>>, seen |-> FALSE, diags |-> <<>>,
     threw |-> FALSE]
\* the units of the concurrent driver: three that raise, under zero, one and
\* two enclosing nodes, and one that returns
ConcUnits ==
    {Unit(Wrapped(ws, RootLoc, "BlockPass"), FALSE) : ws \in {<<>>, <<"If">>, <<"Send", "Begin">>}}
    \cup {Unit(PBegin(RootLoc, <<Minting(Sub(RootLoc, 1))>>), FALSE)}

InitConc ==
    /\ pc = "idle"
    /\ unit = NoUnit
    /\ tree = NoTree
    /\ threw = FALSE
    /\ run = RunState(FALSE, FALSE)
    /\ locReported = FALSE
    /\ entryFlag = FALSE
    /\ unitsDone = 0
    /\ unitsFailed = 0
    /\ rw = NoRw
    /\ thr = [t \in Threads |-> IdleThread]
    /\ debug_mode \in BOOLEAN

\* a thread enters node2Tree and runs up to the raise, or to the return; the
\* frames of node2TreeImpl then on its stack are the ones whose catch will run
CStart(t, u) ==
    /\ thr[t].state = "idle"
    /\ unitsDone < MaxUnits
    /\ \E r \in {node2Tree(u.node, FALSE, u.isRBI)} :
          thr' = [thr EXCEPT ![t] =
                    IF r.threw
                    THEN [IdleThread EXCEPT !.state = "unwinding", !.unit = u,
                                            !.frames = r.st.caught,
                                            !.diags = SelectSeq(r.st.diags,
                                                LAMBDA d : d.code # "InternalError")]
                    ELSE [IdleThread EXCEPT !.state = "done", !.unit = u,
                                            !.diags = r.st.diags]]
    /\ unitsDone' = unitsDone + 1
    /\ UNCHANGED <<pc, unit, tree, threw, run, locReported, entryFlag, unitsFailed, rw, debug_mode>>

\* line 1727, `if (!locReported)`: the catch of the innermost frame left
\* reads the flag; when it is set the frame rethrows
CRead(t) ==
    /\ thr[t].state = "unwinding"
    /\ thr[t].frames # <<>>
    /\ thr' = [thr EXCEPT ![t] =
                 IF locReported
                 THEN [@ EXCEPT !.seen = TRUE, !.frames = Tail(@)]
                 ELSE [@ EXCEPT !.seen = FALSE, !.state = "reporting"]]
    /\ UNCHANGED <<pc, unit, tree, threw, run, locReported, entryFlag, unitsDone,
                   unitsFailed, rw, debug_mode>>

\* lines 1728-1733: the frame sets the flag, reports at its node and rethrows
CWrite(t) ==
    /\ thr[t].state = "reporting"
    /\ locReported' = TRUE
    /\ thr' = [thr EXCEPT ![t] =
                 [@ EXCEPT !.state = "unwinding",
                           !.diags = Append(@, Diag("InternalError", Head(thr[t].frames))),
                           !.frames = Tail(@)]]
    /\ UNCHANGED <<pc, unit, tree, threw, run, entryFlag, unitsDone, unitsFailed, rw, debug_mode>>

\* lines 1764-1767: the catch of node2Tree clears the flag and rethrows
CReset(t) ==
    /\ thr[t].state = "unwinding"
    /\ thr[t].frames = <<>>
    /\ locReported' = FALSE
    /\ thr' = [thr EXCEPT ![t] = [@ EXCEPT !.state = "done", !.threw = TRUE]]
    /\ UNCHANGED <<pc, unit, tree, threw, run, entryFlag, unitsDone, unitsFailed, rw, debug_mode>>

\* the thread is handed its next unit
CNext(t) ==
    /\ thr[t].state = "done"
    /\ unitsDone < MaxUnits
    /\ thr' = [thr EXCEPT ![t] = IdleThread]
    /\ unitsFailed' = unitsFailed + (IF thr[t].threw THEN 1 ELSE 0)
    /\ UNCHANGED <<pc, unit, tree, threw, run, locReported, entryFlag, unitsDone, rw, debug_mode>>

NextConc ==
    \/ \E t \in Threads, u \in ConcUnits : CStart(t, u)
    \/ \E t \in Threads : CRead(t)
    \/ \E t \in Threads : CWrite(t)
    \/ \E t \in Threads : CReset(t)
    \/ \E t \in Threads : CNext(t)

SpecConc == InitConc /\ [][NextConc]_vars

-----------------------------------------------------------------------------
(* Properties of the sequential driver.                                    *)

\* what node2TreeImpl makes of the current unit, before liftTopLevel
Desugared ==
    LET st0 == newCounter(RunState(FALSE, unit.isRBI))
    IN node2TreeImpl(DesugarContext(1, noName, NoLoc, noName), unit.node, st0).t
Returned == pc = "desugared" /\ ~threw
Threw == pc = "desugared" /\ threw

\* C1: whenever node2Tree returns, the root is a ClassDef of kind Class for
\* the root symbol, named by an EmptyTree and without ancestors; its body is
\* the statements of the desugared unit followed by its final expression
\* when that unit is an InsSeq, and the one desugared expression otherwise.
C1_RootClassDef ==
    Returned =>
        /\ tree.tag = "ClassDef"
        /\ tree.kind = "Class"
        /\ tree.symbol = "root"
        /\ tree.name = EmptyTree
        /\ tree.ancestors = <<>>
        /\ tree.loc = unit.node.loc
        /\ IF Desugared.tag = "InsSeq"
           THEN /\ Len(tree.rhs) = Len(Desugared.stats) + 1
                /\ \A i \in 1..Len(Desugared.stats) : tree.rhs[i] = Desugared.stats[i]
                /\ tree.rhs[Len(tree.rhs)] = Desugared.expr
           ELSE tree.rhs = <<Desugared>>
\* a unit that desugars to an InsSeq of two statements and an expression
C1_Witness ==
    /\ Returned
    /\ Desugared.tag = "InsSeq"
    /\ Len(Desugared.stats) = 2
    /\ Len(tree.rhs) = 3

\* the MethodDef nodes of the returned tree
MethodDefs == {m \in SeqToSet(Subtrees(tree)) : m.tag = "MethodDef"}
BlockArgCount(args) == Cardinality({i \in 1..Len(args) : args[i].tag = "BlockArg"})
\* the surface parameters of the unit's def, desugared on their own
SurfaceParams ==
    LET st0 == newCounter(newCounter(RunState(FALSE, unit.isRBI)))
        dctx1 == DesugarContext(2, noName, unit.node.declLoc, unit.node.name)
    IN desugarArgs(dctx1, unit.node.loc, unit.node.args, st0).args
IsDefUnit == unit.node.k \in {"DefMethod", "DefS"}
AsksBlockGiven ==
    /\ unit.node.body.k = "Send"
    /\ unit.node.body.method = Name("block_given?")

\* C2: every MethodDef ends with exactly one BlockArg and is never without
\* parameters; a def whose surface list is empty or does not end in a block
\* parameter gets <blkArg> appended behind the surface parameters, which keep
\* their order; the block-argument name the body is desugared under is the
\* name of that last BlockArg.
C2_BlockArgNormalForm ==
    Returned =>
        /\ \A m \in MethodDefs :
              /\ m.args # <<>>
              /\ m.args[Len(m.args)].tag = "BlockArg"
              /\ BlockArgCount(m.args) = 1
        /\ (IsDefUnit /\ tree.rhs[1].tag = "MethodDef") =>
              LET m == tree.rhs[1]
                  surface == SurfaceParams
                  blkArg == m.args[Len(m.args)]
              IN /\ IF surface = <<>> \/ surface[Len(surface)].tag # "BlockArg"
                    THEN /\ m.args = Append(surface, blkArg)
                         /\ blkArg.expr.name = Name("<blkArg>")
                         /\ blkArg.loc = NoLoc
                    ELSE m.args = surface
                 /\ \E i \in 1..Len(run.blk) : run.blk[i].method = m.loc
                 /\ \A i \in 1..Len(run.blk) :
                       run.blk[i].method = m.loc => run.blk[i].name = blkArg.expr.name
                 /\ AsksBlockGiven =>
                       LET body == IF m.rhs.tag = "InsSeq" THEN m.rhs.expr ELSE m.rhs
                       IN /\ body.tag = "If"
                          /\ body.cond = MK_Local(unit.node.body.loc, blkArg.expr.name)
\* a def with two surface parameters and no &blk, whose body asks block_given?
C2_Witness ==
    /\ Returned
    /\ IsDefUnit
    /\ tree.rhs[1].tag = "MethodDef"
    /\ Len(SurfaceParams) = 2
    /\ Len(tree.rhs[1].args) = 3
    /\ tree.rhs[1].args[3].expr.name = Name("<blkArg>")
    /\ AsksBlockGiven

InternalErrors(ds) == SelectSeq(ds, LAMBDA d : d.code = "InternalError")
\* the Loc of the node around the node at l
Parent(l) == l \div 8
RECURSIVE Encloses(_, _)
\* the node at a is a proper ancestor of the node at l
Encloses(a, l) == l > a /\ (Parent(l) = a \/ Encloses(a, Parent(l)))

\* C4: when desugaring raises at any depth, the unit gets exactly one
\* InternalError, at the node of the innermost frame that caught; the frames
\* that catch after it are those of enclosing nodes, outwards up to the
\* root, and they re-throw without another diagnostic; node2Tree leaves by
\* exception without a tree.
C4_OneInternalError ==
    Threw =>
        /\ run.caught # <<>>
        /\ InternalErrors(run.diags) = <<Diag("InternalError", run.caught[1])>>
        /\ \A i \in 1..(Len(run.caught) - 1) : Encloses(run.caught[i + 1], run.caught[i])
        /\ run.caught[Len(run.caught)] = unit.node.loc
        /\ \A i \in 1..Len(run.diags) :
              run.diags[i].code = "InternalError" => i = Len(run.diags)
        /\ tree = NoTree
\* a raise two nodes below the root: three frames catch, the innermost reports
C4_Witness ==
    /\ Threw
    /\ Len(run.caught) = 3
    /\ run.caught[1] = Sub(Sub(RootLoc, 1), 1)
    /\ Len(InternalErrors(run.diags)) = 1

\* C5: in a sequential run locReported is false whenever node2Tree is
\* entered and whenever it is left, by return or by exception, so a unit
\* that fails gets its InternalError however many units failed before it.
C5_FlagFalseBetweenUnits ==
    [][(pc = "idle" /\ pc' = "desugared") =>
          /\ ~locReported
          /\ ~locReported'
          /\ threw' => Len(InternalErrors(run'.diags)) = 1]_vars
\* a unit fails after an earlier unit failed, and still gets its diagnostic
C5_Witness ==
    /\ Threw
    /\ unitsFailed >= 1
    /\ ~entryFlag
    /\ ~locReported
    /\ Len(InternalErrors(run.diags)) = 1

\* a part of the current unit desugared on its own (parts mint no names)
DesugaredPart(node) ==
    node2TreeImpl(DesugarContext(1, noName, NoLoc, noName), node,
                  newCounter(RunState(FALSE, FALSE))).t
IsFreshLocal(t) == t.tag = "UnresolvedIdent" /\ t.kind = "Local" /\ t.name.nk = "unique"
\* the locals named in ts, as they are read: the Locs of the temporaries a
\* compound assignment reads are those of the expressions they stand for
LocalsOf(ts) == [i \in 1..Len(ts) |-> ts[i].name]
IsCaptures(stats, exprs) ==
    /\ Len(stats) = Len(exprs)
    /\ \A i \in 1..Len(stats) :
          /\ stats[i].tag = "Assign"
          /\ IsFreshLocal(stats[i].lhs)
          /\ stats[i].rhs = exprs[i]
    /\ \A i, j \in 1..Len(stats) : i # j => stats[i].lhs.name # stats[j].lhs.name
IsOpAsgnOfSend == unit.node.k = "OpAsgn" /\ unit.node.left.k = "Send"

\* C9: `r.m(a1..an) op= rhs` gives the statements `tr = r`, `ai = arg_i` in
\* source order, over n + 1 pairwise distinct fresh temporaries, and then the
\* setter call tr.m=(a1..an, tr.m(a1..an) op rhs) with the flags of the
\* original send; r, every arg_i and rhs occur exactly once in the output.
C9_OpAsgnOfSend ==
    (Returned /\ IsOpAsgnOfSend) =>
        LET s == DesugaredPart(unit.node.left)
            rhs == DesugaredPart(unit.node.right)
            n == Len(s.args)
            stats == SubSeq(tree.rhs, 1, Len(tree.rhs) - 1)
            res == tree.rhs[Len(tree.rhs)]
            temps == [i \in 1..Len(stats) |-> stats[i].lhs.name]
            newValue == res.args[n + 1]
            prevValue == newValue.recv
        IN /\ s.tag = "Send"
           /\ Len(tree.rhs) = n + 2
           /\ IsCaptures(stats, <<s.recv>> \o s.args)
           /\ res.tag = "Send"
           /\ res.fun = addEq(s.fun)
           /\ res.flags = s.flags
           /\ res.block = NoTree
           /\ res.recv.tag = "UnresolvedIdent" /\ res.recv.name = temps[1]
           /\ Len(res.args) = n + 1
           /\ \A i \in 1..n : IsFreshLocal(res.args[i]) /\ res.args[i].name = temps[i + 1]
           /\ newValue.tag = "Send"
           /\ newValue.fun = unit.node.op
           /\ newValue.args = <<rhs>>
           /\ prevValue.tag = "Send"
           /\ prevValue.fun = s.fun
           /\ prevValue.flags = s.flags
           /\ prevValue.recv.tag = "UnresolvedIdent" /\ prevValue.recv.name = temps[1]
           /\ LocalsOf(prevValue.args) = SubSeq(temps, 2, n + 1)
           /\ Occurrences(s.recv, tree) = 1
           /\ \A i \in 1..n : Occurrences(s.args[i], tree) = 1
           /\ Occurrences(rhs, tree) = 1
\* `r.m(a, g) += x` with an explicit receiver and two arguments
C9_Witness ==
    /\ Returned
    /\ IsOpAsgnOfSend
    /\ unit.node.left.receiver # NoNode
    /\ Len(unit.node.left.args) = 2
    /\ Len(tree.rhs) = 4
    /\ Len(run.log) = 3

Reads(x, t) == t.tag = "UnresolvedIdent" /\ t.name = x.name /\ t.kind = x.kind
IsAndOrAsgn == unit.node.k \in {"AndAsgn", "OrAsgn"}
\* C10: `x &&= rhs` is If(x, Assign(x, rhs), x) and `x ||= rhs` is
\* If(x, x, Assign(x, rhs)) for a reference x, with no temporary minted; for
\* a send the value read goes once into a fresh temporary, which is the
\* condition and the branch that does not write, and the write is the setter
\* send over the captured receiver and arguments with rhs appended.
C10_AndOrAsgn ==
    (Returned /\ IsAndOrAsgn) =>
        LET isAnd == unit.node.k = "AndAsgn"
            lhs == DesugaredPart(unit.node.left)
            rhs == DesugaredPart(unit.node.right)
            iff == tree.rhs[Len(tree.rhs)]
            write == IF isAnd THEN iff.thenp ELSE iff.elsep
            keep == IF isAnd THEN iff.elsep ELSE iff.thenp
        IN /\ isReference(lhs) =>
                /\ tree.rhs = <<iff>>
                /\ iff.tag = "If"
                /\ iff.cond = lhs
                /\ keep = lhs
                /\ write = MK_AssignE(unit.node.loc, lhs, rhs)
                /\ run.log = <<>>
           /\ lhs.tag = "Send" =>
                LET n == Len(lhs.args)
                    stats == SubSeq(tree.rhs, 1, n + 1)
                    temps == [i \in 1..(n + 1) |-> stats[i].lhs.name]
                    readInto == tree.rhs[n + 2]
                    tempResult == readInto.lhs
                IN /\ Len(tree.rhs) = n + 3
                   /\ IsCaptures(stats, <<lhs.recv>> \o lhs.args)
                   /\ readInto.tag = "Assign"
                   /\ IsFreshLocal(tempResult)
                   /\ \A i \in 1..(n + 1) : tempResult.name # temps[i]
                   /\ readInto.rhs.tag = "Send"
                   /\ readInto.rhs.fun = lhs.fun
                   /\ readInto.rhs.flags = lhs.flags
                   /\ readInto.rhs.recv.name = temps[1]
                   /\ LocalsOf(readInto.rhs.args) = SubSeq(temps, 2, n + 1)
                   /\ Occurrences(readInto.rhs, tree) = 1
                   /\ iff.tag = "If"
                   /\ Reads(tempResult, iff.cond)
                   /\ Reads(tempResult, keep)
                   /\ write.tag = "Send"
                   /\ write.fun = addEq(lhs.fun)
                   /\ write.flags = lhs.flags
                   /\ write.recv.name = temps[1]
                   /\ Len(write.args) = n + 1
                   /\ LocalsOf(SubSeq(write.args, 1, n)) = SubSeq(temps, 2, n + 1)
                   /\ write.args[n + 1] = rhs
                   /\ Len(run.log) = n + 2
\* `r.m(a) ||= x`: the setter is the else branch, the temporary the then branch
C10_Witness ==
    /\ Returned
    /\ unit.node.k = "OrAsgn"
    /\ unit.node.left.k = "Send"
    /\ Len(unit.node.left.args) = 1
    /\ Len(tree.rhs) = 4
    /\ tree.rhs[4].tag = "If"
    /\ tree.rhs[4].elsep.tag = "Send"
    /\ tree.rhs[4].thenp.tag = "UnresolvedIdent"

-----------------------------------------------------------------------------
(* Properties of the fresh names.                                          *)

Triple(r) == <<r.kind, r.base, r.num>>
\* the requests made through the counter of scope s, in request order
ScopeLog(s) == SelectSeq(run.log, LAMBDA r : r.scope = s)
Distinct(lg) == \A i, j \in 1..Len(lg) : i # j => Triple(lg[i]) # Triple(lg[j])
TEnumRan == pc = "rewritten" /\ rw.pass = "TEnum" /\ rw.runs = 1

\* C3 as stated: any two fresh-name requests of one unit, in whatever scopes
\* and for whatever enum values, carry different (kind, base, counter) triples
C3_AllRequestsDistinct ==
    /\ pc = "desugared" => Distinct(run.log)
    /\ TEnumRan => Distinct(rw.log)

\* C3, amended: requests made through one scope's counter differ pairwise
\* while the scope has made no more than 2^16 of them; requests of different
\* scopes differ exactly when base or counter differ; two requests of the
\* T::Enum pass, always (TEnum, value name, 1), differ exactly when the value
\* names differ.
C3_DistinctWithinScope ==
    /\ pc = "desugared" =>
          /\ \A s \in 1..Len(run.ctr) : Len(ScopeLog(s)) <= U2Mod => Distinct(ScopeLog(s))
          /\ \A i, j \in 1..Len(run.log) :
                Triple(run.log[i]) = Triple(run.log[j])
                    <=> (run.log[i].base = run.log[j].base /\ run.log[i].num = run.log[j].num)
    /\ TEnumRan =>
          \A i, j \in 1..Len(rw.log) :
              /\ rw.log[i].kind = "TEnum"
              /\ rw.log[i].num = 1
              /\ Triple(rw.log[i]) = Triple(rw.log[j]) <=> rw.log[i].base = rw.log[j].base
\* two scopes of one unit request the same triple, each scope's own differ
C3_Witness ==
    /\ pc = "desugared"
    /\ \E i, j \in 1..Len(run.log) :
          /\ run.log[i].scope # run.log[j].scope
          /\ Triple(run.log[i]) = Triple(run.log[j])
    /\ \E s \in 1..Len(run.ctr) : Len(ScopeLog(s)) >= 2 /\ Distinct(ScopeLog(s))

\* the scopes opened while the unit was desugared: the root and one for
\* every method, class, module and singleton class of the tree
ScopesOf(t) ==
    Cardinality({i \in 1..Len(Subtrees(t)) : Subtrees(t)[i].tag \in {"MethodDef", "ClassDef"}})

\* C8: every scope (node2Tree, each buildMethod, each scopeNodeToBody)
\* starts its own counter at 1 and every request passes the incremented
\* counter: the requests of a scope carry 2, 3, 4, ... in request order,
\* whatever nested scopes were desugared in between.
C8_CountersPerScope ==
    pc = "desugared" =>
        /\ \A s \in 1..Len(run.ctr) :
              /\ \A i \in 1..Len(ScopeLog(s)) : ScopeLog(s)[i].num = i + 1
              /\ run.ctr[s] = Len(ScopeLog(s)) + 1
        /\ \A i \in 1..Len(run.log) : run.log[i].scope \in 1..Len(run.ctr)
        /\ Returned => Len(run.ctr) = ScopesOf(tree)
\* requests of the root scope before and after a class whose own requests
\* surround those of a method
C8_Witness ==
    /\ Returned
    /\ Len(run.ctr) = 3
    /\ [i \in 1..Len(run.log) |-> run.log[i].scope] = <<1, 1, 2, 3, 3, 2, 1>>
    /\ [i \in 1..Len(run.log) |-> run.log[i].num] = <<2, 3, 2, 2, 3, 3, 4>>

-----------------------------------------------------------------------------
\* a pass has run a second time, over what its first run left
RanTwice == pc = "rewritten" /\ rw.runs = 2

\* C7: running a rewriter pass over its own output gives a structurally
\* identical tree and no further diagnostics: a second TEnum::run leaves the
\* classes it rewrote unchanged, and Minitest::run matches none of the nodes
\* it produced.
C7_RewriterIdempotent ==
    RanTwice => rw.after = rw.before /\ rw.diags = <<>>

\* the statements run 1 of TEnum::run puts first in an enum class
Prelude(loc) ==
    <<MK_Send1(loc, MK_Self(loc), Name("extend"), MK_Constant(loc, "T_Helpers")),
      MK_Send0(loc, MK_Self(loc), Name("abstract!")),
      MK_Send0(loc, MK_Self(loc), Name("sealed!"))>>
ConstAssigns(stats) ==
    SelectSeq(stats, LAMBDA s : s.tag = "Assign" /\ s.lhs.tag = "UnresolvedConstantLit")
NoEnumsDo(klass) == \A i \in 1..Len(klass.rhs) : ~asEnumsDo(klass.rhs[i])
RECURSIVE NotEnumValueDiags(_)
\* one TEnumConstNotEnumValue for each constant assignment of the enum
\* classes of a list, in order
NotEnumValueDiags(klasses) ==
    IF klasses = <<>> THEN <<>>
    ELSE LET ca == IF isTEnum(Head(klasses)) THEN ConstAssigns(Head(klasses).rhs) ELSE <<>>
         IN [i \in 1..Len(ca) |-> Diag("TEnumConstNotEnumValue", ca[i].loc)]
            \o NotEnumValueDiags(Tail(klasses))

\* C7, amended: a second Minitest::run matches nothing the first produced.
\* A second TEnum::run changes nothing under autogen or on a class that is no
\* enum; on an enum class it puts the three prelude statements first once
\* more, keeps what the first run left behind them, and reports
\* TEnumConstNotEnumValue for every constant assignment the first run left,
\* the re-typed `X = T.let(<TEnum X>.instance, <TEnum X>)` included.
C7_SecondRun ==
    RanTwice =>
        /\ rw.pass = "Minitest" => rw.after = rw.before /\ rw.diags = <<>>
        /\ rw.pass = "TEnum" =>
             /\ Len(rw.after) = Len(rw.before)
             /\ \A i \in 1..Len(rw.before) :
                  LET b == rw.before[i]
                      a == rw.after[i]
                  IN IF rw.autogen \/ ~isTEnum(b) THEN a = b
                     ELSE /\ [a EXCEPT !.rhs = b.rhs] = b
                          /\ Len(a.rhs) >= Len(b.rhs) + 3
                          /\ SubSeq(a.rhs, 1, 3) = Prelude(b.declLoc)
                          /\ NoEnumsDo(b) => SubSeq(a.rhs, 4, Len(a.rhs)) = b.rhs
             /\ rw.autogen => rw.diags = <<>>
             /\ (~rw.autogen /\ \A i \in 1..Len(rw.before) : NoEnumsDo(rw.before[i]))
                   => rw.diags = NotEnumValueDiags(rw.before) /\ rw.log = <<>>

\* an enum class with a value went through TEnum::run twice: the second run
\* added a second prelude and reported the assignment the first run made
C7_Witness ==
    /\ RanTwice
    /\ rw.pass = "TEnum"
    /\ ~rw.autogen
    /\ isTEnum(rw.before[1])
    /\ \E i \in 1..Len(rw.before[1].rhs) :
          LET s == rw.before[1].rhs[i]
          IN /\ s.tag = "Assign"
             /\ s.rhs.tag = "Send"
             /\ s.rhs.fun = Name("let")
             /\ s.rhs.recv = MK_Constant(s.loc, "T")
             /\ Diag("TEnumConstNotEnumValue", s.loc) \in {rw.diags[j] : j \in 1..Len(rw.diags)}
    /\ Len(rw.after[1].rhs) = Len(rw.before[1].rhs) + 3
    /\ SubSeq(rw.after[1].rhs, 1, 6) = Prelude(RootLoc) \o Prelude(RootLoc)

-----------------------------------------------------------------------------
(* Compound assignment to a constant.                                      *)

\* the state a part of the unit leaves behind when it is desugared on its own
PartRun(node) ==
    node2TreeImpl(DesugarContext(1, noName, NoLoc, noName), node,
                  newCounter(RunState(FALSE, FALSE))).st
IsConstAsgn ==
    /\ unit.node.k \in {"AndAsgn", "OrAsgn", "OpAsgn"}
    /\ unit.node.left.k = "ConstLhs"
\* C11: `X op= rhs`, `X &&= rhs` and `X ||= rhs` for a constant X desugar to
\* an EmptyTree and report NoConstantReassignment once, at the assignment;
\* the assignment mints no name (the only requests are those of rhs) and
\* node2Tree returns without an exception.
C11_ConstantReassignment ==
    (pc = "desugared" /\ IsConstAsgn) =>
        /\ ~threw
        /\ DesugaredPart(unit.node.left).tag = "UnresolvedConstantLit"
        /\ tree.rhs = <<EmptyTree>>
        /\ run.diags = <<Diag("NoConstantReassignment", unit.node.loc)>>
        /\ run.log = PartRun(unit.node.right).log
\* `A::X ||= (f && x)`: the right-hand side minted its one name, the
\* assignment none
C11_Witness ==
    /\ Returned
    /\ IsConstAsgn
    /\ unit.node.k = "OrAsgn"
    /\ unit.node.left.scope # NoNode
    /\ unit.node.right.k = "And"
    /\ Len(run.log) = 1
    /\ tree.rhs = <<EmptyTree>>
    /\ Len(run.diags) = 1

-----------------------------------------------------------------------------
(* Multiple assignment.                                                    *)

IsMasgn == unit.node.k = "Masgn"
SplatsOf(exprs) == {i \in 1..Len(exprs) : exprs[i].k = "SplatLhs"}
\* the position of the one splat of exprs
SplatOf(exprs) == CHOOSE i \in SplatsOf(exprs) : TRUE
\* a splat that binds no variable desugars its missing var to an EmptyTree
IsBareSplat(c) == c.k = "SplatLhs" /\ c.var = NoNode
\* where the statement of target i stands in the sequence: behind the two
\* temporaries and the statements of the targets before it
StatIndex(exprs, i) == 2 + Cardinality({j \in 1..i : ~IsBareSplat(exprs[j])})
IntArg(send, i) == send.args[i].val
IsExpandSplat(t) ==
    /\ t.tag = "Send"
    /\ t.fun = Name("expandSplat")
    /\ t.recv = MK_Constant(t.loc, "Magic")
    /\ Len(t.args) = 3
\* the counts the list exprs hands to expandSplat in the sequence stats:
\* stated with zeroIfNone as the specification has them, without as the code
CountsAre(exprs, stats, zeroIfNone) ==
    LET n == Len(exprs)
        call == stats[2].rhs
    IN /\ IsExpandSplat(call)
       /\ IF SplatsOf(exprs) = {}
          THEN /\ IntArg(call, 2) = IF zeroIfNone THEN 0 ELSE n
               /\ IntArg(call, 3) = 0
          ELSE /\ IntArg(call, 2) = SplatOf(exprs) - 1
               /\ IntArg(call, 3) = n - SplatOf(exprs)
\* the unit is a multiple assignment that came back, with at most one splat
\* in its list
MasgnDone == Returned /\ IsMasgn /\ Cardinality(SplatsOf(unit.node.lhs.exprs)) <= 1
\* CountsAre for the list of the unit and for each nested list in it
AllCountsAre(zeroIfNone) ==
    LET exprs == unit.node.lhs.exprs
    IN /\ CountsAre(exprs, tree.rhs, zeroIfNone)
       /\ \A i \in 1..Len(exprs) :
             exprs[i].k = "Mlhs" =>
                LET seq == tree.rhs[StatIndex(exprs, i)]
                IN /\ seq.tag = "InsSeq"
                   /\ CountsAre(exprs[i].exprs, seq.stats, zeroIfNone)

\* C12 as stated: expandSplat receives before = the number of targets that
\* precede the splat, 0 when the list has no splat, and after = the number
\* of targets that follow the splat.
C12_CountsAsStated == MasgnDone => AllCountsAre(TRUE)
\* C12, amended: expandSplat receives before = the number of targets that
\* precede the splat and after = the number that follow it; for a list
\* without a splat before is the number of all its targets and after is 0.
C12_ExpandSplatCounts == MasgnDone => AllCountsAre(FALSE)
\* `a, b, c = x`: no splat, and expandSplat(tRhs, 3, 0)
C12_Witness ==
    /\ MasgnDone
    /\ Len(unit.node.lhs.exprs) = 3
    /\ SplatsOf(unit.node.lhs.exprs) = {}
    /\ \A i \in 1..3 : unit.node.lhs.exprs[i].k = "LVarLhs"
    /\ IsExpandSplat(tree.rhs[2].rhs)
    /\ IntArg(tree.rhs[2].rhs, 2) = 3
    /\ IntArg(tree.rhs[2].rhs, 3) = 0

IsSlice(t) == t.tag = "Assign" /\ t.rhs.tag = "Send" /\ t.rhs.fun = Name("slice")
\* `v = tExp.slice(Range.new(before, -after, true))`, and
\* `v = tExp.slice(Range.new(before, -1, false))` when after is 0
SliceInto(v, tExp, before, after) ==
    LET range == MK_Send3(v.loc, MK_Constant(v.loc, "Range"), Name("new"),
                          MK_Int(v.loc, before),
                          MK_Int(v.loc, IF after = 0 THEN -1 ELSE -after),
                          IF after = 0 THEN MK_False(v.loc) ELSE MK_True(v.loc))
    IN MK_AssignE(v.loc, v, MK_Send1(tExp.loc, tExp, Name("slice"), range))
\* what the splat of exprs has put into the statements stats
SplatIs(exprs, stats) ==
    LET call == stats[2].rhs
        bound == {i \in SplatsOf(exprs) : ~IsBareSplat(exprs[i])}
    IN /\ \A i \in bound :
             stats[StatIndex(exprs, i)] =
                SliceInto(DesugaredPart(exprs[i].var), stats[2].lhs, IntArg(call, 2),
                          IntArg(call, 3))
       /\ \A k \in 3..Len(stats) :
             IsSlice(stats[k]) => \E i \in bound : k = StatIndex(exprs, i)
       /\ Len(stats) >= StatIndex(exprs, Len(exprs))
\* the part of C13 about a list with one splat or none, nested lists included
C13_OneSplat ==
    MasgnDone =>
        LET exprs == unit.node.lhs.exprs
        IN /\ SplatIs(exprs, tree.rhs)
           /\ Len(tree.rhs) = StatIndex(exprs, Len(exprs)) + 1
           /\ \A i \in 1..Len(exprs) :
                 exprs[i].k = "Mlhs" =>
                    LET seq == tree.rhs[StatIndex(exprs, i)]
                    IN /\ SplatIs(exprs[i].exprs, seq.stats)
                       /\ Len(seq.stats) = StatIndex(exprs[i].exprs, Len(exprs[i].exprs))
C13_WitnessDebug ==
    /\ Threw
    /\ IsMasgn
    /\ debug_mode
    /\ Cardinality(SplatsOf(unit.node.lhs.exprs)) = 2
    /\ Len(InternalErrors(run.diags)) = 1
\* `a, *b, c = x`: the slice Range.new(1, -1, true)
C13_WitnessOneSplat ==
    /\ MasgnDone
    /\ Len(unit.node.lhs.exprs) = 3
    /\ SplatsOf(unit.node.lhs.exprs) = {2}
    /\ IsSlice(tree.rhs[4])
    /\ IntArg(tree.rhs[4].rhs.args[1], 1) = 1
    /\ IntArg(tree.rhs[4].rhs.args[1], 2) = -1
    /\ tree.rhs[4].rhs.args[1].args[3] = MK_True(tree.rhs[4].lhs.loc)

\* `tExp[idx]`
ElemOf(tExp, idx) == MK_Send1(tExp.loc, tExp, Name("[]"), MK_Int(tExp.loc, idx))
\* the index target i of exprs reads: its 0-based position when no splat
\* stands before it, and -j when it is the j-th from the end behind the splat
IdxOf(exprs, i) ==
    IF \E s \in SplatsOf(exprs) : s < i THEN -(Len(exprs) - i + 1) ELSE i - 1
\* the sequence stats, evaluating to value, is the lowering of `exprs = rhs`
\* at loc: the two temporaries, then the targets in source order
LoweredList(exprs, loc, stats, value, rhs) ==
    LET tRhs == stats[1].lhs
        tExp == stats[2].lhs
    IN /\ IsFreshLocal(tRhs) /\ IsFreshLocal(tExp)
       /\ tRhs.name # tExp.name
       /\ stats[1] = MK_AssignE(loc, tRhs, rhs)
       /\ stats[2].tag = "Assign"
       /\ IsExpandSplat(stats[2].rhs)
       /\ stats[2].rhs.args[1] = tRhs
       /\ value = tRhs
       /\ \A i \in 1..Len(exprs) :
             LET stat == stats[StatIndex(exprs, i)]
                 elem == ElemOf(tExp, IdxOf(exprs, i))
             IN CASE exprs[i].k = "SplatLhs" -> TRUE
                  [] exprs[i].k = "Mlhs" ->
                        /\ stat.tag = "InsSeq"
                        /\ stat.stats[1].rhs = elem
                  [] OTHER ->
                        LET lh == DesugaredPart(exprs[i])
                        IN stat = MK_AssignE(lh.loc, lh, elem)
\* C14: the sequence of a multiple assignment starts with `tRhs = rhs` and
\* `tExp = Magic.expandSplat(tRhs, ..)`; the targets follow in source order,
\* a target before the splat at 0-based position i reading tExp[i] and the
\* j-th from the end behind the splat reading tExp[-j]; a nested list is
\* lowered the same way with that element as its right-hand side; the
\* sequence evaluates to tRhs; tRhs and tExp are different fresh names.
C14_MasgnSequence ==
    MasgnDone =>
        LET exprs == unit.node.lhs.exprs
            n == Len(tree.rhs)
        IN /\ n = StatIndex(exprs, Len(exprs)) + 1
           /\ LoweredList(exprs, unit.node.loc, SubSeq(tree.rhs, 1, n - 1), tree.rhs[n],
                          DesugaredPart(unit.node.rhs))
           /\ \A i \in 1..Len(exprs) :
                 exprs[i].k = "Mlhs" =>
                    LET seq == tree.rhs[StatIndex(exprs, i)]
                    IN /\ Len(seq.stats) = StatIndex(exprs[i].exprs, Len(exprs[i].exprs))
                       /\ LoweredList(exprs[i].exprs, exprs[i].loc, seq.stats, seq.expr,
                                      seq.stats[1].rhs)
                       /\ {seq.stats[1].lhs.name, seq.stats[2].lhs.name}
                             \cap {tree.rhs[1].lhs.name, tree.rhs[2].lhs.name} = {}
\* `a, *b, (u, *w) = x`: a reads tExp[0], the nested list tExp[-1]
C14_Witness ==
    /\ MasgnDone
    /\ Len(unit.node.lhs.exprs) = 3
    /\ unit.node.lhs.exprs[1].k = "LVarLhs"
    /\ unit.node.lhs.exprs[2].k = "SplatLhs" /\ ~IsBareSplat(unit.node.lhs.exprs[2])
    /\ unit.node.lhs.exprs[3].k = "Mlhs"
    /\ Len(tree.rhs) = 6
    /\ tree.rhs[3].rhs = ElemOf(tree.rhs[2].lhs, 0)
    /\ tree.rhs[5].tag = "InsSeq"
    /\ tree.rhs[5].stats[1].rhs = ElemOf(tree.rhs[2].lhs, -1)
    /\ tree.rhs[6] = tree.rhs[1].lhs
    /\ Len(run.log) = 4

-----------------------------------------------------------------------------
(* String and symbol interpolation.                                        *)

IsConcat(t) == t.tag = "Send" /\ t.fun = Name("concat") /\ Len(t.args) = 1
IsToS(t) == t.tag = "Send" /\ t.fun = Name("to_s") /\ t.args = <<>>
RECURSIVE Pieces(_)
\* the operands of a left-folded chain of `.concat` sends, left to right
Pieces(t) == IF IsConcat(t) THEN Append(Pieces(t.recv), t.args[1]) ELSE <<t>>
\* the one statement of the root class: what the interpolation desugared to
Interpolated == tree.rhs[1]
\* the parts of the unit, each desugared on its own
PartTrees == [i \in 1..Len(unit.node.nodes) |-> DesugaredPart(unit.node.nodes[i])]
IsDString == unit.node.k = "DString"
IsDSymbol == unit.node.k = "DSymbol"
\* the parts at the front that are string literals or EmptyTrees
LeadLen(ps) ==
    LET stops == {i \in 1..Len(ps) : ~isStringLitTree(ps[i]) /\ ~isa_tree(ps[i], "EmptyTree")}
    IN IF stops = {} THEN Len(ps) ELSE (CHOOSE i \in stops : \A j \in stops : i <= j) - 1
RECURSIVE TextOf(_)
\* the texts of the literals of ps one after the other
TextOf(ps) ==
    IF ps = <<>> THEN ""
    ELSE (IF isStringLitTree(Head(ps)) THEN Head(ps).val.s ELSE "") \o TextOf(Tail(ps))
RECURSIVE Joined(_)
\* the operands the parts ps add to the chain one by one: nothing for an
\* EmptyTree, a literal as it is, any other part under `.to_s`
Joined(ps) ==
    IF ps = <<>> THEN <<>>
    ELSE (IF isa_tree(Head(ps), "EmptyTree") THEN <<>>
          ELSE IF isStringLitTree(Head(ps)) THEN <<Head(ps)>>
          ELSE <<MK_Send0(Head(ps).loc, Head(ps), Name("to_s"))>>) \o Joined(Tail(ps))

\* C15 as stated: no two parts that are adjacent in the source and both
\* string literals remain separate literals next to each other in the chain
\* of `.concat` sends, wherever in the list they stand; a list of string
\* literals only yields one literal, their concatenation.
C15_MergedEverywhere ==
    (Returned /\ IsDString) =>
        LET ps == PartTrees
            out == Pieces(Interpolated)
        IN /\ \A i \in 1..(Len(ps) - 1) :
                 (isStringLitTree(ps[i]) /\ isStringLitTree(ps[i + 1])) =>
                    ~\E k \in 1..(Len(out) - 1) : out[k] = ps[i] /\ out[k + 1] = ps[i + 1]
           /\ (\A i \in 1..Len(ps) : isStringLitTree(ps[i])) =>
                 /\ isStringLitTree(Interpolated)
                 /\ Interpolated.val = Name(TextOf(ps))
\* C15, amended: string literals are merged only in the run of parts at the
\* front of the list that are string literals or EmptyTrees: the first part
\* and the literals behind it in the run, when they are two or more, become
\* one literal at the Loc of the interpolation, its text the texts of the
\* run in order; when the first part is all there is, it stays as it is.
\* Behind the first part that is neither, every literal is the argument of a
\* `.concat` of its own, next to a literal before it or not.  A list of
\* string literals only yields one literal, their concatenation.
C15_MergedAtTheFront ==
    (Returned /\ IsDString) =>
        LET ps == PartTrees
            n == Len(ps)
            lead == LeadLen(ps)
            merged == {i \in 1..lead : i = 1 \/ isStringLitTree(ps[i])}
            front == IF lead = 0 THEN <<>>
                     ELSE IF Cardinality(merged) = 1 THEN <<ps[1]>>
                     ELSE <<MK_String(unit.node.loc, Name(TextOf(SubSeq(ps, 1, lead))))>>
        IN /\ n > 0 => Pieces(Interpolated) = front \o Joined(SubSeq(ps, lead + 1, n))
           /\ n = 0 => Interpolated = MK_String(unit.node.loc, Name(""))
           /\ (\A i \in 1..n : isStringLitTree(ps[i])) =>
                 /\ isStringLitTree(Interpolated)
                 /\ Interpolated.val = Name(TextOf(ps))
\* "#{x}ab": x.to_s.concat("a").concat("b"), the two literals apart
C15_Witness ==
    /\ Returned
    /\ IsDString
    /\ Len(unit.node.nodes) = 3
    /\ unit.node.nodes[1].k = "LVar"
    /\ unit.node.nodes[2].k = "String" /\ unit.node.nodes[3].k = "String"
    /\ Len(Pieces(Interpolated)) = 3
    /\ IsToS(Pieces(Interpolated)[1])
    /\ Pieces(Interpolated)[2] = PartTrees[2]
    /\ Pieces(Interpolated)[3] = PartTrees[3]
\* "ab#{x}": the two literals at the front are the one literal "ab"
C15_WitnessMerged ==
    /\ Returned
    /\ IsDString
    /\ Len(unit.node.nodes) = 3
    /\ unit.node.nodes[3].k = "LVar"
    /\ Pieces(Interpolated)[1] = MK_String(RootLoc, Name("ab"))

\* t is a `.to_s` or a `.concat` with an EmptyTree for receiver or argument
TouchesEmpty(t) ==
    /\ IsToS(t) \/ IsConcat(t)
    /\ \/ isa_tree(t.recv, "EmptyTree")
       \/ \E i \in 1..Len(t.args) : isa_tree(t.args[i], "EmptyTree")
HasEmptyPart == \E i \in 1..Len(unit.node.nodes) : isa_tree(PartTrees[i], "EmptyTree")
\* C16: when a part of a string or symbol interpolation desugars to an
\* EmptyTree, at whatever position, no `.to_s` and no `.concat` of the output
\* has an EmptyTree for receiver or argument, and the output is no EmptyTree.
C16_EmptyPartsDropped ==
    (Returned /\ (IsDString \/ IsDSymbol) /\ HasEmptyPart) =>
        /\ ~isa_tree(Interpolated, "EmptyTree")
        /\ \A i \in 1..Len(Subtrees(Interpolated)) : ~TouchesEmpty(Subtrees(Interpolated)[i])
\* "#{redo}#{x}": the EmptyTree of the first part is the receiver of `.concat`
C16_Witness ==
    /\ Returned
    /\ IsDString
    /\ Len(unit.node.nodes) = 2
    /\ unit.node.nodes[1].k = "Redo" /\ unit.node.nodes[2].k = "LVar"
    /\ IsConcat(Interpolated)
    /\ isa_tree(Interpolated.recv, "EmptyTree")
    /\ IsToS(Interpolated.args[1])
\* "#{redo}" alone is an EmptyTree
C16_WitnessOnlyPart ==
    /\ Returned
    /\ IsDString
    /\ Len(unit.node.nodes) = 1
    /\ HasEmptyPart
    /\ isa_tree(Interpolated, "EmptyTree")
\* :"a#{redo}": the EmptyTree goes under `.to_s` into the `.concat`
C16_WitnessSymbol ==
    /\ Returned
    /\ IsDSymbol
    /\ Len(unit.node.nodes) = 2
    /\ unit.node.nodes[1].k = "String" /\ unit.node.nodes[2].k = "Redo"
    /\ Interpolated.fun = Name("intern")
    /\ IsConcat(Interpolated.recv)
    /\ IsToS(Interpolated.recv.args[1])
    /\ isa_tree(Interpolated.recv.args[1].recv, "EmptyTree")
\* in a string interpolation an EmptyTree part behind the first part is
\* dropped, and so is one in front of a string literal
DStringDropsLaterEmpty ==
    (Returned /\ IsDString /\ Len(unit.node.nodes) > 0
       /\ (~isa_tree(PartTrees[1], "EmptyTree")
             \/ (Len(PartTrees) > 1 /\ isStringLitTree(PartTrees[2])))) =>
        /\ ~isa_tree(Interpolated, "EmptyTree")
        /\ \A i \in 1..Len(Subtrees(Interpolated)) : ~TouchesEmpty(Subtrees(Interpolated)[i])

-----------------------------------------------------------------------------
(* case.                                                                   *)

IsCase == unit.node.k = "Case"
RECURSIVE OrChain(_)
\* the tests of `if c1 then true else (if c2 then true else ..)`, outermost first
OrChain(c) ==
    IF c.tag = "If" /\ c.thenp.tag = "Literal" /\ c.thenp.lk = "true"
    THEN <<c.cond>> \o OrChain(c.elsep)
    ELSE <<c>>
Reversed(s) == [i \in 1..Len(s) |-> s[Len(s) + 1 - i]]
\* `p === t` for each pattern of a clause, in source order
TestsOf(when, t) ==
    [j \in 1..Len(when.patterns) |->
        LET p == DesugaredPart(when.patterns[j])
        IN MK_Send1(p.loc, p, Name("==="), t)]
RECURSIVE WhenChain(_, _, _, _, _)
\* iff is the If of clause i of whens, the later clauses in its else branch
\* and the else body innermost; the tests of a clause come in source order,
\* or last pattern first when lastFirst
WhenChain(whens, i, iff, t, lastFirst) ==
    IF i > Len(whens) THEN iff = DesugaredPart(unit.node.else_)
    ELSE /\ iff.tag = "If"
         /\ iff.loc = whens[i].loc
         /\ OrChain(iff.cond) = IF lastFirst THEN Reversed(TestsOf(whens[i], t))
                                ELSE TestsOf(whens[i], t)
         /\ iff.thenp = DesugaredPart(whens[i].body)
         /\ WhenChain(whens, i + 1, iff.elsep, t, lastFirst)
CaseDone == Returned /\ IsCase /\ unit.node.condition # NoNode
CaseIs(lastFirst) ==
    LET capture == tree.rhs[1]
        t == capture.lhs
    IN /\ Len(tree.rhs) = 2
       /\ capture.tag = "Assign"
       /\ IsFreshLocal(t)
       /\ capture.rhs = DesugaredPart(unit.node.condition)
       /\ Occurrences(capture.rhs, tree) = 1
       /\ WhenChain(unit.node.whens, 1, tree.rhs[2], t, lastFirst)
\* C17: a case with a condition evaluates it once into a temporary t; the
\* first `when` is the outermost If, each later `when` sits in the else
\* branch of the one before, the else body innermost; the patterns p1..pk of
\* a `when` are tested as `if p1 === t then true else (p2 === t ..)`, p1 first.
C17_CaseLowering == CaseDone => CaseIs(FALSE)
\* what holds instead: within a `when` the last pattern is tested first
CaseTestsLastFirst == CaseDone => CaseIs(TRUE)
\* `case x when P1, P2 then y1 else z end`:
\* if (if P2 === t then true else P1 === t) then y1 else z
C17_Witness ==
    /\ CaseDone
    /\ Len(unit.node.whens) = 1
    /\ Len(unit.node.whens[1].patterns) = 2
    /\ unit.node.else_ # NoNode
    /\ tree.rhs[2].tag = "If"
    /\ Len(OrChain(tree.rhs[2].cond)) = 2
    /\ OrChain(tree.rhs[2].cond)[1].recv = DesugaredPart(unit.node.whens[1].patterns[2])
    /\ OrChain(tree.rhs[2].cond)[2].recv = DesugaredPart(unit.node.whens[1].patterns[1])

-----------------------------------------------------------------------------
(* rescue.                                                                 *)

IsRescue == unit.node.k = "Rescue"
RescueDone == Returned /\ IsRescue
IsRescueTemp(t) ==
    IsFreshLocal(t) /\ t.name.base = Name("rescueTemp")
\* the clause body starts with `target = <caught>`, the rest is the body
IsPrefixed(case, target, body) ==
    /\ case.body.tag = "InsSeq"
    /\ Len(case.body.stats) = 1
    /\ case.body.stats[1].tag = "Assign"
    /\ case.body.stats[1].lhs = target
    /\ case.body.stats[1].rhs.tag = "UnresolvedIdent"
    /\ case.body.stats[1].rhs.name = case.var.name
    /\ case.body.expr = body
\* C18 as stated: the variable of a RescueCase is a fresh rescueTemp exactly
\* when the source bound no variable, and whenever the source named a
\* binding, a local or any other target, the body is prefixed by the
\* assignment of the caught exception to it.
C18_RescueBindingAsStated ==
    RescueDone =>
        \A i \in 1..Len(unit.node.rescue) :
            LET clause == unit.node.rescue[i]
                case == tree.rhs[1].rescueCases[i]
            IN /\ IsRescueTemp(case.var) <=> clause.var = NoNode
               /\ clause.var # NoNode =>
                     IsPrefixed(case, DesugaredPart(clause.var), DesugaredPart(clause.body))
\* C18, amended: the variable of a RescueCase is the local the source bound
\* when it bound a local, and the body is then the clause body with no
\* assignment in front; in every other case it is a fresh rescueTemp; the
\* body is prefixed by `target = rescueTemp` exactly when the source bound
\* a target that is no local.
C18_RescueBinding ==
    RescueDone =>
        /\ tree.rhs[1].tag = "Rescue"
        /\ Len(tree.rhs[1].rescueCases) = Len(unit.node.rescue)
        /\ \A i \in 1..Len(unit.node.rescue) :
              LET clause == unit.node.rescue[i]
                  case == tree.rhs[1].rescueCases[i]
                  body == DesugaredPart(clause.body)
              IN /\ case.tag = "RescueCase"
                 /\ IsRescueTemp(case.var) <=> clause.var.k # "LVarLhs"
                 /\ clause.var.k = "LVarLhs" =>
                       /\ case.var = DesugaredPart(clause.var)
                       /\ case.body = body
                 /\ clause.var = NoNode => case.body = body
                 /\ clause.var.k \notin {"LVarLhs", "null"} =>
                       IsPrefixed(case, DesugaredPart(clause.var), body)
        /\ \A i, j \in 1..Len(unit.node.rescue) :
              (i # j /\ IsRescueTemp(tree.rhs[1].rescueCases[i].var)
                     /\ IsRescueTemp(tree.rhs[1].rescueCases[j].var))
                 => tree.rhs[1].rescueCases[i].var.name # tree.rhs[1].rescueCases[j].var.name
\* `begin b rescue => e then r rescue E => @e then r end`
C18_Witness ==
    /\ RescueDone
    /\ Len(unit.node.rescue) = 2
    /\ unit.node.rescue[1].var.k = "LVarLhs"
    /\ unit.node.rescue[2].var.k = "IVarLhs"
    /\ tree.rhs[1].rescueCases[1].var.name = Name("e")
    /\ tree.rhs[1].rescueCases[1].body.tag = "UnresolvedIdent"
    /\ IsRescueTemp(tree.rhs[1].rescueCases[2].var)
    /\ tree.rhs[1].rescueCases[2].body.tag = "InsSeq"
    /\ Len(run.log) = 1

-----------------------------------------------------------------------------
(* return, break and next.                                                 *)

IsExit == unit.node.k \in {"Return", "Break", "Next"}
ExitDone == pc = "desugared" /\ IsExit
\* the operands that are no block pass, desugared, in source order
RECURSIVE Operands(_)
Operands(exprs) ==
    IF exprs = <<>> THEN <<>>
    ELSE (IF Head(exprs).k = "BlockPass" THEN <<>> ELSE <<DesugaredPart(Head(exprs))>>)
            \o Operands(Tail(exprs))
BlockPasses(exprs) == {i \in 1..Len(exprs) : exprs[i].k = "BlockPass"}
\* the operand and the diagnostics of the node built for the unit
ExitOperandIs ==
    LET exprs == unit.node.exprs
        out == tree.rhs[1]
    IN /\ ~threw
       /\ Len(tree.rhs) = 1
       /\ out.expr = IF Len(exprs) > 1 THEN MK_Array(unit.node.loc, Operands(exprs))
                     ELSE IF Operands(exprs) = <<>> THEN EmptyTree
                     ELSE Operands(exprs)[1]
       /\ run.diags = [i \in 1..Cardinality(BlockPasses(exprs)) |->
                          Diag("UnsupportedNode", unit.node.loc)]
\* C19: return, break and next desugar to a Return, a Break and a Next for
\* every operand list: no operand gives an EmptyTree operand, one operand
\* that operand, several an Array of them in source order; a block-pass
\* operand is reported as UnsupportedNode and left out, and the node built
\* is of the same kind all the same.
C19_ExitNodes ==
    ExitDone => ExitOperandIs /\ tree.rhs[1].tag = unit.node.k
\* what holds instead: the node is of the kind of the statement unless its
\* one operand is a block pass, and then it is a Break for all three
ExitKindButForBlockPass ==
    ExitDone =>
        /\ ExitOperandIs
        /\ tree.rhs[1].tag = IF Len(unit.node.exprs) = 1 /\ BlockPasses(unit.node.exprs) = {1}
                              THEN "Break" ELSE unit.node.k
\* `return &b`: a Break with an EmptyTree operand, and one UnsupportedNode
C19_Witness ==
    /\ ExitDone
    /\ ~threw
    /\ unit.node.k = "Return"
    /\ Len(unit.node.exprs) = 1
    /\ unit.node.exprs[1].k = "BlockPass"
    /\ tree.rhs = <<MK_Break(RootLoc, EmptyTree)>>
    /\ run.diags = <<Diag("UnsupportedNode", RootLoc)>>
\* `next x, &b, f`: a Next of the Array [x, f]
C19_WitnessArray ==
    /\ ExitDone
    /\ unit.node.k = "Next"
    /\ Len(unit.node.exprs) = 3
    /\ BlockPasses(unit.node.exprs) = {2}
    /\ tree.rhs[1].tag = "Next"
    /\ tree.rhs[1].expr.tag = "Array"
    /\ Len(tree.rhs[1].expr.elems) = 2

-----------------------------------------------------------------------------
(* Unsupported constructs.                                                 *)

\* the unit is one of the constructs, or `<construct>; x`
UnsupportedKindsAndUndef == UnsupportedKinds \cup {"Undef"}
IsUnsupportedAlone == unit.node.k \in UnsupportedKindsAndUndef
IsUnsupportedInBegin ==
    /\ unit.node.k = "Begin"
    /\ Len(unit.node.stmts) = 2
    /\ unit.node.stmts[1].k \in UnsupportedKindsAndUndef
IsUnsupported == IsUnsupportedAlone \/ IsUnsupportedInBegin
TheConstruct == IF IsUnsupportedAlone THEN unit.node ELSE unit.node.stmts[1]
\* exactly one diagnostic, of the code that goes with the construct, at it;
\* no exception; the statement behind the construct is desugared
OneDiagnostic ==
    /\ ~threw
    /\ run.diags = <<Diag(IF TheConstruct.k = "Undef" THEN "UndefUsage"
                          ELSE "UnsupportedNode", TheConstruct.loc)>>
    /\ IsUnsupportedInBegin =>
          /\ Len(tree.rhs) = 2
          /\ tree.rhs[2] = DesugaredPart(unit.node.stmts[2])
\* C20 as stated: undef, BEGIN and END blocks, backrefs, flip-flops, redo
\* and the encoding literal each desugar to an EmptyTree with exactly one
\* diagnostic, UnsupportedNode or UndefUsage for undef, and no exception.
C20_AllEmptyTrees ==
    (pc = "desugared" /\ IsUnsupported) =>
        /\ OneDiagnostic
        /\ tree.rhs[1] = EmptyTree
\* C20, amended: BEGIN and END blocks, backrefs, flip-flops, redo and the
\* encoding literal each desugar to an EmptyTree with exactly one
\* UnsupportedNode diagnostic and no exception; undef reports exactly one
\* UndefUsage, raises no exception either, and desugars to the send
\* `Kernel.undef(..)` over its desugared operands, not to an EmptyTree.
C20_UnsupportedConstructs ==
    (pc = "desugared" /\ IsUnsupported) =>
        /\ OneDiagnostic
        /\ tree.rhs[1] =
              IF TheConstruct.k = "Undef"
              THEN MK_Send(TheConstruct.loc, MK_Constant(TheConstruct.loc, "Kernel"),
                           Name("undef"),
                           [i \in 1..Len(TheConstruct.exprs) |->
                               DesugaredPart(TheConstruct.exprs[i])], {})
              ELSE EmptyTree
\* `undef :m1, :m2; x`: Kernel.undef(:m1, :m2), one UndefUsage, and x behind
C20_Witness ==
    /\ Returned
    /\ IsUnsupportedInBegin
    /\ TheConstruct.k = "Undef"
    /\ Len(TheConstruct.exprs) = 2
    /\ tree.rhs[1].tag = "Send"
    /\ Len(tree.rhs[1].args) = 2
    /\ Len(run.diags) = 1
    /\ tree.rhs[2].tag = "UnresolvedIdent"
\* `BEGIN {}; x`: an EmptyTree, one UnsupportedNode, and x behind
C20_WitnessPreexe ==
    /\ Returned
    /\ IsUnsupportedInBegin
    /\ TheConstruct.k = "Preexe"
    /\ tree.rhs[1] = EmptyTree
    /\ run.diags = <<Diag("UnsupportedNode", TheConstruct.loc)>>

\* ---- integer literals ----
IsIntegerAlone == unit.node.k = "Integer"
IsIntegerArg ==
    /\ unit.node.k = "Send"
    /\ Len(unit.node.args) = 1
    /\ unit.node.args[1].k = "Integer"
IsInteger == IsIntegerAlone \/ IsIntegerArg
TheInteger == IF IsIntegerAlone THEN unit.node ELSE unit.node.args[1]
TheLiteral == IF IsIntegerAlone THEN tree.rhs[1] ELSE tree.rhs[1].args[1]
IntegerDone == Returned /\ IsInteger
\* the literal starts with `~`
LeadingTilde == Head(TheInteger.val) = "~"
\* the digits of the literal, its `~` and its `_` taken away, read as a number
DigitsRead == SimpleAtoi(StrRemove(StrRemove(TheInteger.val, "~"), "_"))
Int64Zero == Int64(FALSE, <<0>>)
Int64MinusOne == Int64(TRUE, <<1>>)
InRangeAsStated ==
    DigitsRead.ok =>
        /\ run.diags = <<>>
        /\ TheLiteral = MK_Int(TheInteger.loc, IF LeadingTilde THEN Complement(DigitsRead.val)
                                               ELSE DigitsRead.val)
\* C21: an integer literal whose digits, its `_` and its leading `~` taken
\* away, do not fit a signed 64-bit integer gets IntegerOutOfRange and
\* desugars to the literal 0, with a leading `~` or without; one in range
\* desugars to the one's complement of its value behind a `~`, and to its
\* value otherwise.
C21_IntegerLiterals ==
    IntegerDone =>
        /\ InRangeAsStated
        /\ ~DigitsRead.ok =>
              /\ run.diags = <<Diag("IntegerOutOfRange", TheInteger.loc)>>
              /\ TheLiteral = MK_Int(TheInteger.loc, Int64Zero)
\* what the arm does out of range: the 0 it falls back to is complemented
\* as well, so the literal behind a `~` is -1
OutOfRangeComplemented ==
    (IntegerDone /\ ~DigitsRead.ok) =>
        /\ run.diags = <<Diag("IntegerOutOfRange", TheInteger.loc)>>
        /\ TheLiteral = MK_Int(TheInteger.loc, IF LeadingTilde THEN Int64MinusOne
                                               ELSE Int64Zero)
\* reached: a literal out of range behind a `~` came out as -1
C21_Witness ==
    /\ IntegerDone
    /\ ~DigitsRead.ok
    /\ LeadingTilde
    /\ TheLiteral.val = Int64MinusOne
\* reached: the largest int64_t behind a `~` came out as the smallest
C21_WitnessInRange ==
    /\ IntegerDone
    /\ DigitsRead.ok
    /\ LeadingTilde
    /\ TheLiteral.val = Int64(TRUE, Int64MinMagnitude)
\* in range, the literal is as stated
C21_InRange == IntegerDone => InRangeAsStated

\* ---- methods of RBI files ----
\* the body buildMethod hands to validateRBIBody
BodyBeforeValidation ==
    LET st0 == newCounter(newCounter(RunState(FALSE, unit.isRBI)))
        dctx1 == DesugarContext(2, noName, unit.node.declLoc, unit.node.name)
        a == desugarArgs(dctx1, unit.node.loc, unit.node.args, st0)
        args == appendBlkArg(a.args, unit.node.loc)
        dctx2 == DesugarContext(2, blockArg2Name(args[Len(args)]), unit.node.declLoc,
                                unit.node.name)
    IN desugarBody(dctx2, unit.node.loc, unit.node.body, a.destructures, a.st).t
CodeInRBIDiags == SelectSeq(run.diags, LAMBDA d : d.code = "CodeInRBI")
\* nothing, one assignment to an instance variable, or a sequence of them
OnlyIVarAssigns(body) ==
    \/ body.tag = "EmptyTree"
    \/ isIVarAssign(body)
    \/ /\ body.tag = "InsSeq"
       /\ \A i \in 1..Len(body.stats) : isIVarAssign(body.stats[i])
       /\ isIVarAssign(body.expr)
MethodDone == Returned /\ IsDefUnit /\ tree.rhs[1].tag = "MethodDef"
\* CodeInRBI goes by the desugared body, which validation leaves as it is
RBIBodyValidated ==
    MethodDone =>
        /\ tree.rhs[1].rhs = BodyBeforeValidation
        /\ unit.isRBI => (CodeInRBIDiags = <<>> <=> OnlyIVarAssigns(tree.rhs[1].rhs))
        /\ ~unit.isRBI => CodeInRBIDiags = <<>>
\* C22: a method of an RBI file gets no CodeInRBI exactly when its body is
\* empty, one assignment to an instance variable, or an InsSeq of such
\* assignments; a def without a body in the source gets none whatever its
\* parameters are; outside RBI files there is no CodeInRBI; and validation
\* returns the body as it got it.
C22_CodeInRBI ==
    MethodDone =>
        /\ tree.rhs[1].rhs = BodyBeforeValidation
        /\ unit.isRBI => (CodeInRBIDiags = <<>> <=> OnlyIVarAssigns(tree.rhs[1].rhs))
        /\ (unit.isRBI /\ unit.node.body = NoNode) => CodeInRBIDiags = <<>>
        /\ ~unit.isRBI => CodeInRBIDiags = <<>>
\* reached: a def of an RBI file without a body and with a destructuring
\* parameter was reported
C22_Witness ==
    /\ MethodDone
    /\ unit.isRBI
    /\ unit.node.body = NoNode
    /\ unit.node.args.k = "Args"
    /\ \E i \in 1..Len(unit.node.args.args) : unit.node.args.args[i].k = "Mlhs"
    /\ CodeInRBIDiags # <<>>
\* reached: a body of two assignments to instance variables went unreported
C22_WitnessIVars ==
    /\ MethodDone
    /\ unit.isRBI
    /\ tree.rhs[1].rhs.tag = "InsSeq"
    /\ OnlyIVarAssigns(tree.rhs[1].rhs)
    /\ CodeInRBIDiags = <<>>

\* ---- the hoisting of constants out of test blocks ----
MinitestRan == pc = "rewritten" /\ rw.pass = "Minitest" /\ rw.runs = 1 /\ ~rw.autogen
TheSend == rw.before[1].rhs[1]
\* the statement is an `it`, `before` or `after` block the pass turns into a
\* method
IsHoisting ==
    /\ MinitestRan
    /\ TheSend.tag = "Send"
    /\ TheSend.block # NoTree
    /\ isSelfReference(TheSend.recv)
    /\ \/ TheSend.args = <<>> /\ TheSend.fun \in {Name("before"), Name("after")}
       \/ Len(TheSend.args) = 1 /\ TheSend.fun = Name("it")
TheBlockBody == TheSend.block.body
TheResult == rw.after[1].rhs[1]
\* the result is the sig and the method, behind the hoisted statements if
\* there are any
HasHoisted == TheResult.expr.tag = "InsSeq"
Hoisted == IF HasHoisted THEN TheResult.stats ELSE <<>>
TheMethod == IF HasHoisted THEN TheResult.expr.expr ELSE TheResult.expr
IsClassLike(t) == t.tag = "ClassDef" \/ (t.tag = "Send" /\ isDescribe(t))
IsConstAssign(t) == t.tag = "Assign" /\ t.lhs.tag = "UnresolvedConstantLit"
RECURSIVE Outside(_)
RECURSIVE OutsideSeq(_)
\* the nodes of t that are inside no class definition and no `describe`
Outside(t) == <<t>> \o (IF IsClassLike(t) THEN <<>> ELSE OutsideSeq(Kids(t)))
OutsideSeq(ts) == IF ts = <<>> THEN <<>> ELSE Outside(Head(ts)) \o OutsideSeq(Tail(ts))
TopAssigns(t) == SelectSeq(Outside(t), IsConstAssign)
OutermostClasses(t) == SelectSeq(Outside(t), IsClassLike)
AllAssigns(t) == SelectSeq(Subtrees(t), IsConstAssign)
HoistedAt(l) == {i \in 1..Len(Hoisted) : Hoisted[i].loc = l}
InMethodAt(l) == {i \in 1..Len(Subtrees(TheMethod.rhs)) : Subtrees(TheMethod.rhs)[i].loc = l}
\* the outermost classes go out once each and leave nothing behind; the
\* classes inside them go with them
ClassesHoisted ==
    \A i \in 1..Len(OutermostClasses(TheBlockBody)) :
        LET c == OutermostClasses(TheBlockBody)[i]
        IN /\ Cardinality(HoistedAt(c.loc)) = 1
           /\ \A j \in HoistedAt(c.loc) : IsClassLike(Hoisted[j])
           /\ InMethodAt(c.loc) = {}
           /\ \A k \in 1..Len(Subtrees(c)) :
                 (IsClassLike(Subtrees(c)[k]) /\ Subtrees(c)[k].loc # c.loc)
                    => HoistedAt(Subtrees(c)[k].loc) = {}
\* C23: out of a rewritten `it`, `before` or `after` block only the constant
\* assignments at the top level and the outermost class definitions are
\* hoisted; a constant assignment inside a class definition or a `describe`
\* stays as it is inside that class, which is hoisted whole; each outermost
\* class leaves the method body and is among the hoisted statements exactly
\* once; the classes inside it are not hoisted on their own.
C23_OnlyTopLevelHoisted ==
    IsHoisting =>
        /\ ClassesHoisted
        /\ \A j \in 1..Len(Hoisted) :
              \/ /\ IsClassLike(Hoisted[j])
                 /\ \E i \in 1..Len(OutermostClasses(TheBlockBody)) :
                       OutermostClasses(TheBlockBody)[i] = Hoisted[j]
              \/ /\ IsConstAssign(Hoisted[j])
                 /\ \E i \in 1..Len(TopAssigns(TheBlockBody)) :
                       TopAssigns(TheBlockBody)[i].loc = Hoisted[j].loc
\* what the mover does: the classes as stated, and every constant
\* assignment out, whatever it is inside of
EveryAssignHoisted ==
    IsHoisting =>
        /\ ClassesHoisted
        /\ \A i \in 1..Len(AllAssigns(TheBlockBody)) :
              Cardinality(HoistedAt(AllAssigns(TheBlockBody)[i].loc)) = 1
        /\ Len(Hoisted) = Len(AllAssigns(TheBlockBody)) + Len(OutermostClasses(TheBlockBody))
\* reached: the assignment inside a class came out next to the class, which
\* holds the const_set in its place
C23_Witness ==
    /\ IsHoisting
    /\ TheBlockBody.tag = "ClassDef"
    /\ IsConstAssign(TheBlockBody.rhs[1])
    /\ Len(Hoisted) = 2
    /\ IsConstAssign(Hoisted[1])
    /\ Hoisted[2].tag = "ClassDef"
    /\ Hoisted[2].rhs[1].tag = "Send"
    /\ Hoisted[2].rhs[1].fun = Name("const_set")
\* reached: of a class inside a class only the outer one came out
C23_WitnessNested ==
    /\ IsHoisting
    /\ TheBlockBody.tag = "ClassDef"
    /\ TheBlockBody.rhs[1].tag = "ClassDef"
    /\ Len(Hoisted) = 1
    /\ Hoisted[1] = TheBlockBody
    /\ TheMethod.rhs = EmptyTree

IsTwoArgLet(t) == t.tag = "Send" /\ t.fun = Name("let") /\ Len(t.args) = 2
\* Module.const_set(:Name, rhs) for the assignment a
ConstSet(a) ==
    MK_Send2(a.loc, MK_Constant(a.loc, "Module"), Name("const_set"),
             MK_Symbol(a.lhs.loc, a.lhs.cnst), a.rhs)
\* Name = T.let(T.unsafe(nil), Type) for an annotated a, Name = T.unsafe(nil) else
NilAssign(a) ==
    LET nil == MK_Send1(a.loc, MK_Constant(a.loc, "T"), Name("unsafe"), MK_Nil(a.loc))
    IN MK_AssignE(a.loc, a.lhs,
                  IF IsTwoArgLet(a.rhs)
                  THEN MK_Send2(a.loc, MK_Constant(a.loc, "T"), Name("let"), nil, a.rhs.args[2])
                  ELSE nil)
\* the statements of the method body at l
StatsAt(l) == {i \in InMethodAt(l) : Subtrees(TheMethod.rhs)[i].tag \in {"Send", "Assign"}}
SetInPlace(a) ==
    /\ Cardinality(StatsAt(a.loc)) = 1
    /\ \A i \in StatsAt(a.loc) :
          /\ Subtrees(TheMethod.rhs)[i].tag = "Send"
          /\ Subtrees(TheMethod.rhs)[i] = ConstSet(a)
    /\ Cardinality(HoistedAt(a.loc)) = 1
    /\ \A j \in HoistedAt(a.loc) : Hoisted[j] = NilAssign(a)
MovedWhole(a) ==
    /\ InMethodAt(a.loc) = {}
    /\ Cardinality(HoistedAt(a.loc)) = 1
    /\ \A j \in HoistedAt(a.loc) : Hoisted[j] = a
IsAlias(a) == a.rhs.tag = "UnresolvedConstantLit"
\* C24: every constant assignment `Name = rhs` the hoister visits becomes
\* Module.const_set(:Name, rhs) in the method body and gives exactly one
\* hoisted `Name = nil`, in a T.let of the type rhs is annotated with when
\* rhs is a T.let of two arguments; so for every rhs, a constant included.
C24_ConstSetForEveryRhs ==
    IsHoisting =>
        \A i \in 1..Len(TopAssigns(TheBlockBody)) : SetInPlace(TopAssigns(TheBlockBody)[i])
\* C24, amended: so for every rhs that is no constant; `Name = Other` is
\* hoisted as it is and leaves an EmptyTree in the method body.
C24_ConstSetButForAliases ==
    IsHoisting =>
        \A i \in 1..Len(TopAssigns(TheBlockBody)) :
            LET a == TopAssigns(TheBlockBody)[i]
            IN IF IsAlias(a) THEN MovedWhole(a) ELSE SetInPlace(a)
\* reached: an annotated assignment left a const_set and a T.let of nil
C24_Witness ==
    /\ IsHoisting
    /\ IsConstAssign(TheBlockBody)
    /\ IsTwoArgLet(TheBlockBody.rhs)
    /\ TheMethod.rhs = ConstSet(TheBlockBody)
    /\ Hoisted = <<NilAssign(TheBlockBody)>>
\* reached: `X = Y` went out whole
C24_WitnessAlias ==
    /\ IsHoisting
    /\ IsConstAssign(TheBlockBody)
    /\ IsAlias(TheBlockBody)
    /\ TheMethod.rhs = EmptyTree
    /\ Hoisted = <<TheBlockBody>>

\* the mover after its traversal of the block body
MoverAfter == TreeMap_apply(ConstantMover, TheBlockBody).m
\* the traversal of t by a mover whose classDepth is d leaves it at d
Balanced(t, d) ==
    TreeMap_apply([ConstantMover EXCEPT !.classDepth = d, !.lowest = d], t).m.classDepth = d
\* C29: in a traversal by the ConstantMover classDepth never goes below 0
\* and is 0 again at the end; every increment of a pre hook is undone by
\* one decrement of the post hook of the same node, which sees the node
\* with its children replaced.
C29_ClassDepthBalanced ==
    IsHoisting =>
        /\ MoverAfter.movedConstants = Hoisted
        /\ MoverAfter.classDepth = 0
        /\ MoverAfter.lowest = 0
        /\ \A i \in 1..Len(Subtrees(TheBlockBody)), d \in 0..1 :
              Balanced(Subtrees(TheBlockBody)[i], d)
\* reached: a class inside a class was traversed, and the outer one hoisted
C29_Witness ==
    /\ IsHoisting
    /\ TheBlockBody.tag = "ClassDef"
    /\ TheBlockBody.rhs[1].tag = "ClassDef"
    /\ MoverAfter.classDepth = 0
    /\ Len(Hoisted) = 1
\* reached: a `describe` whose block body was replaced was hoisted
C29_WitnessDescribe ==
    /\ IsHoisting
    /\ TheBlockBody.tag = "Send"
    /\ isDescribe(TheBlockBody)
    /\ IsConstAssign(TheBlockBody.block.body)
    /\ Len(Hoisted) = 2
    /\ Hoisted[2].block.body.tag = "Send"
    /\ MoverAfter.classDepth = 0

\* ---- the values of a T::Enum ----
\* the enum classes of the unit the pass has just rewritten
EnumsRewritten ==
    IF TEnumRan /\ ~rw.autogen THEN {i \in 1..Len(rw.before) : isTEnum(rw.before[i])} ELSE {}
TEnumRewritten(i) == i \in EnumsRewritten
RECURSIVE Spliced(_)
\* the statements of a class body, those of each `enums do` in its place
Spliced(stats) ==
    IF stats = <<>> THEN <<>>
    ELSE LET stat == Head(stats)
         IN (IF asEnumsDo(stat)
             THEN IF stat.block.body.tag = "InsSeq"
                  THEN Append(stat.block.body.stats, stat.block.body.expr)
                  ELSE <<stat.block.body>>
             ELSE <<stat>>) \o Spliced(Tail(stats))
IsMagicSelfNew(e) ==
    /\ e.tag = "Send"
    /\ e.fun = Name("<self-new>")
    /\ e.recv.tag = "ConstantLit"
    /\ e.recv.symbol = "Magic"
\* Name = Magic.<self-new>(self) or Name = T.let(Magic.<self-new>(self), Type)
IsEnumValue(stat) ==
    /\ IsConstAssign(stat)
    /\ \/ IsMagicSelfNew(stat.rhs)
       \/ IsTwoArgLet(stat.rhs) /\ IsMagicSelfNew(stat.rhs.args[1])
IsRejected(stat) == IsConstAssign(stat) /\ ~IsEnumValue(stat)
RejectedIn(i) == SelectSeq(Spliced(rw.before[i].rhs), IsRejected)
StatsAtLoc(stats, l) == {j \in 1..Len(stats) : stats[j].loc = l}
Reported(stat) ==
    \E j \in 1..Len(rw.diags) : rw.diags[j] = Diag("TEnumConstNotEnumValue", stat.loc)
\* C25: in a class whose first ancestor is T::Enum a constant assignment at
\* the top level whose right-hand side is neither Magic.<self-new>(self)
\* nor a T.let of it gets TEnumConstNotEnumValue and is dropped: it is not
\* in the rewritten class body, be it inside `enums do` or outside.
C25_RejectedDropped ==
    \A i \in EnumsRewritten :
        \A j \in 1..Len(RejectedIn(i)) :
            /\ Reported(RejectedIn(i)[j])
            /\ StatsAtLoc(rw.after[i].rhs, RejectedIn(i)[j].loc) = {}
\* C25, amended: it gets TEnumConstNotEnumValue and stays in the rewritten
\* class body as it is, once.
C25_RejectedKept ==
    \A i \in EnumsRewritten :
        \A j \in 1..Len(RejectedIn(i)) :
            LET stat == RejectedIn(i)[j]
                at == StatsAtLoc(rw.after[i].rhs, stat.loc)
            IN /\ Reported(stat)
               /\ Cardinality(at) = 1
               /\ \A k \in at : rw.after[i].rhs[k] = stat
\* reached: rejected assignments inside and outside `enums do` were kept
C25_Witness ==
    /\ TEnumRewritten(1)
    /\ Len(rw.before[1].rhs) = 2
    /\ IsRejected(rw.before[1].rhs[1])
    /\ asEnumsDo(rw.before[1].rhs[2])
    /\ Len(RejectedIn(1)) = 2
    /\ Len(rw.diags) = 2
    /\ Len(rw.after[1].rhs) = 5

\* the name of the class of the value Name
TEnumClassName(lhs) ==
    MK_UnresolvedConstant(lhs.loc, EmptyTree,
                          [nk |-> "constant", s |-> freshNameUnique("TEnum", lhs.cnst, 1)])
\* class <TEnum Name> < Enclosing; <how> Singleton; final!; end
ValueClass(klass, stat, how) ==
    MK_Class(stat.loc, stat.loc, TEnumClassName(stat.lhs), <<klass.name>>,
             <<MK_Send1(stat.loc, MK_Self(stat.loc), Name(how), MK_Constant(stat.loc, "Singleton")),
               MK_Send0(stat.loc, MK_Self(stat.loc), Name("final!"))>>)
\* Name = T.let(<TEnum Name>.instance, <TEnum Name>)
ValueAssign(stat) ==
    MK_AssignE(stat.loc, stat.lhs,
               MK_Send2(stat.loc, MK_Constant(stat.loc, "T"), Name("let"),
                        MK_Send0(stat.loc, TEnumClassName(stat.lhs), Name("instance")),
                        TEnumClassName(stat.lhs)))
RECURSIVE Replaced(_, _, _)
\* the statements with each enum value replaced by its class and assignment
Replaced(klass, stats, how) ==
    IF stats = <<>> THEN <<>>
    ELSE (IF IsEnumValue(Head(stats))
          THEN <<ValueClass(klass, Head(stats), how), ValueAssign(Head(stats))>>
          ELSE <<Head(stats)>>) \o Replaced(klass, Tail(stats), how)
RewrittenBody(klass, how) ==
    Prelude(klass.declLoc) \o Replaced(klass, Spliced(klass.rhs), how)
\* C26: each accepted enum value is replaced, where it stood, by two
\* entries in this order: the class <TEnum Name>, whose only ancestor is the
\* enclosing class and whose body is `extend Singleton; final!`, and
\* Name = T.let(<TEnum Name>.instance, <TEnum Name>); extend(T::Helpers),
\* abstract! and sealed! come first; all other statements, those out of
\* `enums do` included, keep their order.
C26_ValuesReplaced ==
    \A i \in EnumsRewritten : rw.after[i].rhs = RewrittenBody(rw.before[i], "extend")
\* C26, amended: the body of the class is `include Singleton; final!`.
C26_ValuesReplacedInclude ==
    \A i \in EnumsRewritten : rw.after[i].rhs = RewrittenBody(rw.before[i], "include")
\* reached: a statement outside and two values inside `enums do` were
\* rewritten, the values into two entries each
C26_Witness ==
    /\ TEnumRewritten(1)
    /\ Len(rw.before[1].rhs) = 2
    /\ rw.before[1].rhs[1].tag = "Send"
    /\ asEnumsDo(rw.before[1].rhs[2])
    /\ Len(Spliced(rw.before[1].rhs)) = 3
    /\ \A j \in 2..3 : IsEnumValue(Spliced(rw.before[1].rhs)[j])
    /\ Len(rw.after[1].rhs) = 8
    /\ rw.after[1].rhs[5].tag = "ClassDef"
    /\ rw.after[1].rhs[5].rhs[1].fun = Name("include")
    /\ rw.after[1].rhs[6].tag = "Assign"

\* ---- for loops ----
IsFor == unit.node.k = "For"
ForDone == Returned /\ IsFor
\* the variable is no local, or one variable of the pattern is none
NeedsForTemp ==
    IF unit.node.vars.k = "Mlhs" THEN ~allLVarLhs(unit.node.vars.exprs)
    ELSE unit.node.vars.k # "LVarLhs"
TheEach == tree.rhs[1]
IsForTemp(t) == IsFreshLocal(t) /\ t.name.base = Name("forTemp")
\* the forTemp locals the block body reads
ForTempsRead ==
    {Subtrees(TheEach.block.body)[i].name :
        i \in {j \in 1..Len(Subtrees(TheEach.block.body)) :
                  IsForTemp(Subtrees(TheEach.block.body)[j])}}
\* the names the parameters of the block bind
BlockParams ==
    {(IF TheEach.block.args[i].tag = "UnresolvedIdent" THEN TheEach.block.args[i]
      ELSE TheEach.block.args[i].expr).name : i \in 1..Len(TheEach.block.args)}
\* C27: in `for v in e do b end` with v no plain local, or a pattern with a
\* leaf that is none, the fresh forTemp is the parameter of the block given
\* to e.each: the destructuring assignment at the head of the block body
\* reads a variable the block binds.
C27_ForTempBound ==
    (ForDone /\ NeedsForTemp) =>
        /\ TheEach.tag = "Send"
        /\ TheEach.fun = Name("each")
        /\ Cardinality(ForTempsRead) = 1
        /\ ForTempsRead \subseteq BlockParams
DesugaredParts(nodes) == [i \in 1..Len(nodes) |-> DesugaredPart(nodes[i])]
\* the loops over locals: the locals are the parameters of the block
ForOverLocals ==
    (ForDone /\ ~NeedsForTemp) =>
        /\ TheEach.tag = "Send"
        /\ TheEach.fun = Name("each")
        /\ ForTempsRead = {}
        /\ TheEach.block.args = DesugaredParts(IF unit.node.vars.k = "Mlhs"
                                               THEN unit.node.vars.exprs
                                               ELSE <<unit.node.vars>>)
\* reached: the block body destructures a forTemp and the block has no
\* parameter at all
C27_Witness ==
    /\ ForDone
    /\ NeedsForTemp
    /\ TheEach.block.body.tag = "InsSeq"
    /\ Cardinality(ForTempsRead) = 1
    /\ TheEach.block.args = <<>>

\* ---- ensure ----
RECURSIVE EnsuresIn(_)
RECURSIVE EnsuresInSeq(_)
\* the Ensure nodes of a unit, the outer ones first
EnsuresIn(node) ==
    CASE node.k = "Ensure" -> <<node>> \o EnsuresIn(node.body)
      [] node.k = "Kwbegin" -> EnsuresInSeq(node.stmts)
      [] OTHER -> <<>>
EnsuresInSeq(nodes) ==
    IF nodes = <<>> THEN <<>> ELSE EnsuresIn(Head(nodes)) \o EnsuresInSeq(Tail(nodes))
EnsureDone == Returned /\ EnsuresIn(unit.node) # <<>>
\* the tree x is a node of t
IsNodeOf(x, t) ==
    \E i \in 1..Len(Subtrees(t)) :
        /\ Subtrees(t)[i].tag = x.tag
        /\ Subtrees(t)[i].loc = x.loc
        /\ Subtrees(t)[i] = x
\* the body of e desugars to a Rescue, which the ensure is then put into
FoldsOnto(e) == DesugaredPart(e.body).tag = "Rescue"
\* C28: when an ensure is put on a body that has desugared to a Rescue,
\* the ensure slot of that Rescue is an EmptyTree, so that no ensure that has
\* been lowered is overwritten; however the ensures are nested, the body of
\* each of them is in the tree.
C28_NoEnsureLost ==
    EnsureDone =>
        \A i \in 1..Len(EnsuresIn(unit.node)) :
            LET e == EnsuresIn(unit.node)[i]
            IN /\ FoldsOnto(e) => DesugaredPart(e.body).ensure = EmptyTree
               /\ IsNodeOf(DesugaredPart(e.ensure), tree.rhs[1])
\* what the arm does: the outermost ensure is the ensure of the Rescue the
\* unit desugars to, which is the Rescue of the body when the body is one
OuterEnsureKept ==
    EnsureDone =>
        LET e == EnsuresIn(unit.node)[1]
            body == DesugaredPart(e.body)
        IN tree.rhs[1] = IF body.tag = "Rescue"
                         THEN [body EXCEPT !.ensure = DesugaredPart(e.ensure)]
                         ELSE MakeRescue(e.loc, body, <<>>, EmptyTree, DesugaredPart(e.ensure))
\* reached: of `begin begin x ensure a end ensure b end` the tree has b and
\* not a
C28_Witness ==
    /\ EnsureDone
    /\ Len(EnsuresIn(unit.node)) = 2
    /\ unit.node.k = "Kwbegin"
    /\ unit.node.stmts[1].body.k = "Kwbegin"
    /\ FoldsOnto(EnsuresIn(unit.node)[1])
    /\ tree.rhs[1].tag = "Rescue"
    /\ tree.rhs[1].ensure = DesugaredPart(EnsuresIn(unit.node)[1].ensure)
    /\ ~IsNodeOf(DesugaredPart(EnsuresIn(unit.node)[2].ensure), tree.rhs[1])
\* reached: an ensure went into the empty slot of a body with a rescue clause
C28_WitnessRescue ==
    /\ EnsureDone
    /\ unit.node.k = "Ensure"
    /\ unit.node.body.k = "Rescue"
    /\ DesugaredPart(unit.node.body).ensure = EmptyTree
    /\ tree.rhs[1].ensure = DesugaredPart(unit.node.ensure)
    /\ Len(tree.rhs[1].rescueCases) = 1

-----------------------------------------------------------------------------
(* One long scope: a scope whose statements have asked for so many fresh   *)
(* names that its counter is one below the last value of a u2, and which   *)
(* asks for a few more.                                                    *)

MintBases == <<Name("andAnd"), Name("orOr"), Name("assignTemp")>>
LongScope == DesugarContext(1, noName, NoLoc, noName)
\* the requests that bring the counter from 1 to U2Mod - 2
FillingRequests == U2Mod - 3
RECURSIVE MintRange(_, _, _)
\* requests lo..hi of the scope, one after the other, the bases in turn
MintRange(lo, hi, st) ==
    IF lo > hi THEN st
    ELSE IF lo = hi
         THEN freshDesugarName(LongScope, MintBases[(lo % Len(MintBases)) + 1], st).st
         ELSE LET half == MintRange(lo, (lo + hi) \div 2, st)
              IN IF half.exc THEN half ELSE MintRange((lo + hi) \div 2 + 1, hi, half)

\* of the requests that fill the counter the log keeps the first MaxMints
KeepFirst(st) == [st EXCEPT !.log = SubSeq(@, 1, MaxMints)]
\* the number, among the requests of the scope, of the i-th request kept
RequestNo(i) == IF i <= MaxMints THEN i ELSE FillingRequests + (i - MaxMints)

InitLong ==
    /\ pc = "minting"
    /\ unit = NoUnit
    /\ tree = NoTree
    /\ threw = FALSE
    /\ run = KeepFirst(MintRange(1, FillingRequests, newCounter(RunState(FALSE, FALSE))))
    /\ locReported = FALSE
    /\ entryFlag = FALSE
    /\ unitsDone = 0
    /\ unitsFailed = 0
    /\ rw = NoRw
    /\ thr = NoThreads
    /\ debug_mode \in BOOLEAN

\* the next statement of the scope asks for a name
MintOne(base) ==
    /\ pc = "minting"
    /\ Len(run.log) < MaxMints + MaxMints
    /\ run' = freshDesugarName(LongScope, base, run).st
    /\ UNCHANGED <<pc, unit, tree, threw, locReported, entryFlag, unitsDone, unitsFailed,
                   rw, thr, debug_mode>>

NextLong == \E i \in 1..Len(MintBases) : MintOne(MintBases[i])

SpecLong == InitLong /\ [][NextLong]_vars

Minting1 == pc = "minting" /\ Len(run.log) > MaxMints
\* the newest request of the scope
Newest == run.log[Len(run.log)]
\* C30: in one scope the counters handed to freshNameUnique go strictly
\* up, and so no two fresh names of one scope and one base are the same,
\* however many the scope asks for.
C30_CountersIncrease ==
    Minting1 =>
        /\ Len(run.log) > MaxMints + 1 => Newest.num > run.log[Len(run.log) - 1].num
        /\ \A i \in 1..(Len(run.log) - 1) : Triple(run.log[i]) # Triple(Newest)
\* what the counter does: request i of a scope is handed (i + 1) mod 2^16,
\* so the counters go up by one until 65535 and the next is 0; a name is the
\* name of an earlier request exactly when that is 65536 requests before it
\* and has the same base
CountersWrap ==
    Minting1 =>
        /\ \A i \in 1..Len(run.log) :
              /\ run.log[i].num = (RequestNo(i) + 1) % U2Mod
              /\ run.log[i].scope = 1
        /\ run.ctr[1] = Newest.num
        /\ \A i \in 1..(Len(run.log) - 1) :
              Triple(run.log[i]) = Triple(Newest)
                 <=> /\ RequestNo(Len(run.log)) - RequestNo(i) = U2Mod
                     /\ run.log[i].base = Newest.base
\* reached: the request after the one that was handed 65535 was handed 0,
\* and a later one the name of the first request of the scope
C30_Witness ==
    /\ Minting1
    /\ RequestNo(Len(run.log)) = U2Mod + 1
    /\ run.log[MaxMints + 1].num = U2Mod - 1
    /\ run.log[MaxMints + 2].num = 0
    /\ Triple(Newest) = Triple(run.log[1])

-----------------------------------------------------------------------------
(* Properties of the concurrent driver.                                    *)

\* what a unit reports when it is desugared with no other thread running
AloneDiags(u) == node2Tree(u.node, FALSE, u.isRBI).st.diags

\* C6: with two units desugared at once on two threads, each unit that
\* raises inside node2TreeImpl still reports InternalError exactly once, and
\* what a run reports does not depend on how far the other run has got: it is
\* what the unit reports when desugared alone.
C6_ConcurrentUnits ==
    \A t \in DOMAIN thr :
        thr[t].state = "done" =>
            /\ thr[t].threw => Len(InternalErrors(thr[t].diags)) = 1
            /\ thr[t].diags = AloneDiags(thr[t].unit)

=============================================================================
